---- MODULE Spec2Model ----
(***************************************************************************)
(* Model of web_protect.py: the simulated load generator (ddos_worker,     *)
(* simulate_ddos), the guard in main() in front of it and of the payload   *)
(* probe, as a state machine whose steps are the statements between which  *)
(* threads can interleave.                                                 *)
(***************************************************************************)
EXTENDS Integers, Sequences, FiniteSets, TLC

\* ---------------------------------------------------------------- bounds
MaxThreads == 2      \* largest --threads value explored
MaxReq == 3          \* requests started in one process (caps the while loops)
MaxRuns == 2         \* calls of simulate_ddos in one process (SpecRuns)
MaxInterrupts == 1   \* Ctrl+C presses delivered to the main thread
MaxDuration == 1     \* largest --duration value explored
NumPayloads == 2     \* payloads given to simulate_sqli
MaxKeywords == 2     \* longest keyword list given to scan_text_for_keywords
MaxUrls == 2         \* URLs in one survey batch
MaxAdds == 3         \* calls of add_to_blocklist in one process
MaxSites == 2        \* flagged sites given to process_survey_results
MaxRate == 5         \* --rate, requests per second and per worker
MaxElapsed == 12     \* elapsed_time of a pass, in tenths of a second
MANT_DIG == 3        \* significant bits of a float (sys.float_info.mant_dig
                     \* is 53; kept small here, as the amounts are)
MAX_EXP == 5         \* 2 ^ MAX_EXP is above every finite float
                     \* (sys.float_info.max_exp is 1024)
MaxAmount == 4       \* the largest amount passed to the bank
MaxMoney == 10       \* the largest balance an account starts with

\* ------------------------------------------------------ program constants
HTTP_OK_LOW == 200
HTTP_OK_HIGH == 300
JOIN_TIMEOUT == 5    \* thread.join(timeout=5), seconds

\* ---------------------------------------------------------------- inputs
DefaultTarget == "http://localhost:8000"
Targets == { DefaultTarget, "http://127.0.0.1",
             "http://example.com", "http://localhost.evil.com" }
Answers == { "yes", "YES", "no", "" }
ThreadCounts == (-1)..MaxThreads
Rates == {-1, 0, 1}
Durations == (-1)..MaxDuration
Statuses == {199, 200, 299, 300}
Endpoints == {"always200", "unreachable", "mixed"}
RequestMillis == {0, 1500}

Runs == 1..MaxRuns
Wid == Runs \X (1..MaxThreads)

\* thread identities other than the workers', for ddos_log_lock
NoThread == << 0, 0 >>
MainThread == << 0, 1 >>

VARIABLES
    args,                \* parsed command line: mode, target, threads, rate, duration
    endpoint,            \* how the target server behaves during this execution
    mpc,                 \* position of the main thread
    answer,              \* what the operator typed at the confirmation prompt
    run,                 \* number of simulate_ddos calls started so far
    ddos_success_count,
    ddos_failure_count,
    ddos_log_lock,       \* the thread holding the lock: NoThread, MainThread or a worker
    stop_event,          \* per call of simulate_ddos: the Event's flag
    set_calls,           \* per call: number of stop_event.set() calls
    spawn_i,             \* loop variable of the spawning loop
    join_i,              \* loop variable of the joining loop
    join_waited,         \* seconds spent in joins that ran into their timeout
    elapsed,             \* whole seconds since start_sim_time
    wpc,                 \* position of each worker thread
    wresp,               \* the response or exception a worker is recording
    wtmp,                \* value the worker loaded for its +=
    started,             \* per call: session.get calls started by its workers
    read_s,              \* success count already formatted by a print in progress
    summary,             \* the DDoS_SIM_END record, <<>> until logged
    interrupts,          \* KeyboardInterrupts delivered so far
    pending_exc,         \* an exception is propagating through the finally block
    sqli_i,              \* loop variable of the payload loop
    sqli_sent            \* requests sent by simulate_sqli

\* the variables of the simulated attacks
ddosVars == << args, endpoint, mpc, answer, run, ddos_success_count,
               ddos_failure_count, ddos_log_lock, stop_event, set_calls, spawn_i,
               join_i, join_waited, elapsed, wpc, wresp, wtmp, started, read_s,
               summary, interrupts, pending_exc, sqli_i, sqli_sent >>

VARIABLES
    scan_text,           \* scan_text_for_keywords: the text argument
    scan_keywords,       \* ... the keywords argument, a list
    scan_i,              \* ... keywords the for loop has dealt with
    found_keywords,      \* ... the set found_keywords
    scan_pc,             \* ... "idle", "loop" or "returned"
    scan_result          \* ... the list returned

scanVars == << scan_text, scan_keywords, scan_i, found_keywords, scan_pc,
               scan_result >>

VARIABLES
    ocr_installed,       \* main(): import pytesseract, PIL, io succeeded
    keywords,            \* --keywords
    urls,                \* the batch given to survey_websites
    survey_i,            \* URLs survey_websites has dealt with
    spc,                 \* position in survey_websites / survey_website
    survey_url,          \* the URL being surveyed, scheme added
    page,                \* what requests.get(url) gave
    all_found_keywords,  \* survey_website: the set all_found_keywords
    result,              \* the dict survey_website returned
    flagged_sites,       \* survey_websites: the list flagged_sites
    survey_log           \* lines appended to SURVEY_RESULTS_FILE

surveyVars == << ocr_installed, keywords, urls, survey_i, spc, survey_url,
                 page, all_found_keywords, result, flagged_sites, survey_log >>

VARIABLES
    blocklist_exists,    \* os.path.exists(BLOCKLIST_FILE)
    blocklist_file,      \* the lines of BLOCKLIST_FILE, without the newline
    add_calls,           \* the calls of add_to_blocklist made so far
    ppc,                 \* position in process_survey_results
    batch_sites,         \* the urls of the flagged_sites it was given
    to_add,              \* unique_domains_to_block still to be iterated
    batch_from,          \* len(add_calls) when the batch started
    warnings             \* sites skipped with a warning in the batch

blockVars == << blocklist_exists, blocklist_file, add_calls, ppc,
                batch_sites, to_add, batch_from, warnings >>

VARIABLES
    target_url,          \* simulate_sqli: the endpoint given
    payloads,            \* simulate_sqli: the payload list given
    sq_pc,               \* position in simulate_sqli
    param_name,          \* the parameter name chosen
    base_url,            \* the url the payloads are sent to
    payload_i,           \* payloads dealt with so far
    in_flight,           \* requests of the session sent and not answered
    requests_sent,       \* the requests session.get has been called for
    attack_log           \* SQLi lines appended to ATTACK_LOG_FILE

sqliVars == << target_url, payloads, sq_pc, param_name, base_url, payload_i,
               in_flight, requests_sent, attack_log >>

VARIABLES
    w_rate,              \* ddos_worker: its rate argument
    w_elapsed_ms,        \* elapsed_time of one pass of its loop
    w_slept_ms,          \* the time it slept at the end of the pass
    pace_pc              \* position in the pacing of the pass

paceVars == << w_rate, w_elapsed_ms, w_slept_ms, pace_pc >>

VARIABLES
    accounts,            \* AccountManager.accounts: user id -> Account
    last_call,           \* the last call made on the bank and what it returned
    before               \* accounts as they were when that call was made

bankVars == << accounts, last_call, before >>

\* main.py, the menu loop
VARIABLES
    logged_in_user_id,   \* the local of main(): LoggedOut for None
    menu_pc,             \* "idle", "menu" (at input()), "exited" (after break)
    last_menu            \* the last choice, who was logged in, what was printed

menuVars == << logged_in_user_id, menu_pc, last_menu >>

vars == << ddosVars, scanVars, surveyVars, blockVars, sqliVars, paceVars,
           bankVars, menuVars >>

\* ------------------------------------------------------- pure functions

\* str.startswith
StartsWith(s, p) == Len(s) >= Len(p) /\ SubSeq(s, 1, Len(p)) = p

\* the test of main() on args.ddos / args.sqli
IsLocalPrefix(url) ==
    StartsWith(url, "http://localhost") \/ StartsWith(url, "http://127.0.0.1")

UpperCase == "ABCDEFGHIJKLMNOPQRSTUVWXYZ"
LowerCase == "abcdefghijklmnopqrstuvwxyz"

LowerChar(c) ==
    IF \E i \in 1..Len(UpperCase) : SubSeq(UpperCase, i, i) = c
    THEN LET i == CHOOSE k \in 1..Len(UpperCase) : SubSeq(UpperCase, k, k) = c
         IN SubSeq(LowerCase, i, i)
    ELSE c

RECURSIVE Lower(_)
\* str.lower
Lower(s) == IF Len(s) = 0 THEN ""
            ELSE LowerChar(SubSeq(s, 1, 1)) \o Lower(SubSeq(s, 2, Len(s)))

\* mutant: 200 < status instead of 200 <= status
Classify_StrictLow(o) ==
    IF o.kind = "response"
    THEN IF HTTP_OK_LOW < o.status /\ o.status < HTTP_OK_HIGH
         THEN "success" ELSE "failure"
    ELSE "failure"

\* mutant: the except branches count the request as a success
Classify_ExceptionAsSuccess(o) ==
    IF o.kind = "response"
    THEN IF HTTP_OK_LOW <= o.status /\ o.status < HTTP_OK_HIGH
         THEN "success" ELSE "failure"
    ELSE "success"

\* the branch of ddos_worker a request outcome takes
Classify(o) ==
    IF o.kind = "response"
    THEN IF HTTP_OK_LOW <= o.status /\ o.status < HTTP_OK_HIGH
         THEN "success" ELSE "failure"
    ELSE "failure"

NoResponse == [kind |-> "none", status |-> 0]

\* what session.get can do against the endpoint
Outcomes(e) ==
    LET resp(S) == { [kind |-> "response", status |-> s] : s \in S }
        exc(K) == { [kind |-> k, status |-> 0] : k \in K }
    IN CASE e = "always200" -> resp({200})
         [] e = "unreachable" -> exc({"RequestException"})
         [] OTHER -> resp(Statuses) \cup exc({"RequestException", "Exception"})

\* the pacing of ddos_worker, in milliseconds; rate > 0
SleepDuration(rate, elapsed_ms) == (1000 \div rate) - elapsed_ms

\* the worker threads are daemon threads: they end with the process
Terminal == {"exited", "aborted", "crashed"}
Alive == mpc \notin Terminal

\* requests started whose outcome is not yet on a counter
InFlight == {"request", "write"}
Completed(r) ==
    started[r] - Cardinality({w \in Wid : w[1] = r /\ wpc[w] \in InFlight})

RECURSIVE SumOver(_, _)
SumOver(f, S) == IF S = {} THEN 0
                 ELSE LET x == CHOOSE y \in S : TRUE
                      IN f[x] + SumOver(f, S \ {x})
TotalStarted == SumOver(started, Runs)
TotalCompleted == SumOver([r \in Runs |-> Completed(r)], Runs)

\* ----------------------------------------------------------------- Init
\* The command line.  Every worker count is explored with every endpoint
\* behaviour (unthrottled, longest duration); each other value of each
\* argument, each other target and the payload probe are explored with the
\* remaining arguments at BaseArgs.
BaseArgs == [mode |-> "ddos", target |-> DefaultTarget, threads |-> 1,
             rate |-> 0, duration |-> 1]

DdosInit ==
    /\ args \in [mode : {"ddos", "sqli"}, target : Targets,
                 threads : ThreadCounts, rate : Rates, duration : Durations]
    /\ endpoint \in Endpoints
    /\ \/ \E n \in ThreadCounts :
              args = [BaseArgs EXCEPT !.threads = n, !.duration = MaxDuration]
       \/ /\ endpoint = "mixed"
          /\ \/ \E m \in {"ddos", "sqli"}, t \in Targets :
                    args = [BaseArgs EXCEPT !.mode = m, !.target = t]
             \/ \E r \in Rates : args = [BaseArgs EXCEPT !.rate = r]
             \/ \E d \in Durations : args = [BaseArgs EXCEPT !.duration = d]
             \/ args = [BaseArgs EXCEPT !.threads = MaxThreads, !.rate = 1]
    /\ mpc = "main"
    /\ answer = "none"
    /\ run = 0
    /\ ddos_success_count = 0
    /\ ddos_failure_count = 0
    /\ ddos_log_lock = NoThread
    /\ stop_event = [r \in Runs |-> FALSE]
    /\ set_calls = [r \in Runs |-> 0]
    /\ spawn_i = 0
    /\ join_i = 0
    /\ join_waited = 0
    /\ elapsed = 0
    /\ wpc = [w \in Wid |-> "unstarted"]
    /\ wresp = [w \in Wid |-> NoResponse]
    /\ wtmp = [w \in Wid |-> 0]
    /\ started = [r \in Runs |-> 0]
    /\ read_s = 0
    /\ summary = << >>
    /\ interrupts = 0
    /\ pending_exc = FALSE
    /\ sqli_i = 0
    /\ sqli_sent = 0

\* no call of scan_text_for_keywords under way
ScanIdle ==
    /\ scan_text = ""
    /\ scan_keywords = << >>
    /\ scan_i = 0
    /\ found_keywords = {}
    /\ scan_pc = "idle"
    /\ scan_result = << >>

NoPage == [fetch |-> "none", ctype |-> "", text |-> "", links |-> << >>,
           ocr_text |-> ""]
NoResult == [url |-> "", status |-> "none", reason |-> "",
             matched_keywords |-> {}, content_type |-> ""]

\* no survey under way
SurveyIdle ==
    /\ ocr_installed = FALSE
    /\ keywords = << >>
    /\ urls = << >>
    /\ survey_i = 0
    /\ spc = "idle"
    /\ survey_url = ""
    /\ page = NoPage
    /\ all_found_keywords = {}
    /\ result = NoResult
    /\ flagged_sites = << >>
    /\ survey_log = << >>

\* no blocklist file yet and no call of add_to_blocklist
BlockIdle ==
    /\ blocklist_exists = FALSE
    /\ blocklist_file = << >>
    /\ add_calls = << >>
    /\ ppc = "idle"
    /\ batch_sites = << >>
    /\ to_add = {}
    /\ batch_from = 0
    /\ warnings = 0

\* no call of simulate_sqli under way
SqliIdle ==
    /\ target_url = ""
    /\ payloads = << >>
    /\ sq_pc = "idle"
    /\ param_name = ""
    /\ base_url = ""
    /\ payload_i = 0
    /\ in_flight = 0
    /\ requests_sent = << >>
    /\ attack_log = << >>

\* no pass of the worker loop looked at on its own
PaceIdle ==
    /\ w_rate = 0
    /\ w_elapsed_ms = 0
    /\ w_slept_ms = 0
    /\ pace_pc = "idle"

\* AccountManager(): self.accounts = {}
NoAccounts == [u \in {} |-> 0]
NoCall == [op |-> "none", user |-> "", other |-> "", amount |-> 0,
           manager |-> "", ret |-> FALSE]

\* no bank
BankIdle ==
    /\ accounts = NoAccounts
    /\ last_call = NoCall
    /\ before = NoAccounts

\* logged_in_user_id = None
LoggedOut == "<None>"
NoChoice == [choice |-> "", user |-> LoggedOut, message |-> ""]

\* no menu
MenuIdle ==
    /\ logged_in_user_id = LoggedOut
    /\ menu_pc = "idle"
    /\ last_menu = NoChoice

Init ==
    /\ DdosInit
    /\ ScanIdle
    /\ SurveyIdle
    /\ BlockIdle
    /\ SqliIdle
    /\ PaceIdle
    /\ BankIdle
    /\ MenuIdle

\* one attack command line, for the specifications of the other commands
DdosIdle == DdosInit /\ args = BaseArgs /\ endpoint = "mixed"

\* ------------------------------------------------------------ ddos_worker
Counter(k) == IF k = "success" THEN ddos_success_count ELSE ddos_failure_count

\* while not stop_event.is_set(): ... session.get(...) is started
\* mutant: while True, the signal is not looked at
WorkerCheck_IgnoresSignal(w) ==
    /\ Alive
    /\ wpc[w] = "check"
    /\ TotalStarted < MaxReq
    /\ wpc' = [wpc EXCEPT ![w] = "request"]
    /\ started' = [started EXCEPT ![w[1]] = @ + 1]
    /\ UNCHANGED << args, endpoint, mpc, answer, run, ddos_success_count,
                    ddos_failure_count, ddos_log_lock, stop_event, set_calls,
                    spawn_i, join_i, join_waited, elapsed, wresp, wtmp,
                    read_s, summary, interrupts, pending_exc, sqli_i,
                    sqli_sent, scanVars, surveyVars, sqliVars, paceVars,
                    bankVars, menuVars, blockVars >>


WorkerCheck(w) ==
    /\ Alive
    /\ wpc[w] = "check"
    /\ IF stop_event[w[1]]
       THEN /\ wpc' = [wpc EXCEPT ![w] = "exited"]
            /\ UNCHANGED started
       ELSE /\ TotalStarted < MaxReq
            /\ wpc' = [wpc EXCEPT ![w] = "request"]
            /\ started' = [started EXCEPT ![w[1]] = @ + 1]
    /\ UNCHANGED << args, endpoint, mpc, answer, run, ddos_success_count,
                    ddos_failure_count, ddos_log_lock, stop_event, set_calls,
                    spawn_i, join_i, join_waited, elapsed, wresp, wtmp,
                    read_s, summary, interrupts, pending_exc, sqli_i,
                    sqli_sent, scanVars, surveyVars, sqliVars, paceVars,
                    bankVars, menuVars, blockVars >>


\* mutant: no except Exception clause, an unexpected exception ends the thread
WorkerRequest_Unhandled(w) ==
    /\ Alive
    /\ wpc[w] = "request"
    /\ \E o \in Outcomes(endpoint) :
         IF o.kind = "Exception"
         THEN /\ wpc' = [wpc EXCEPT ![w] = "exited"]
              /\ UNCHANGED << ddos_log_lock, wresp, wtmp >>
         ELSE /\ ddos_log_lock = NoThread
              /\ ddos_log_lock' = w
              /\ wresp' = [wresp EXCEPT ![w] = o]
              /\ wtmp' = [wtmp EXCEPT ![w] = Counter(Classify(o))]
              /\ wpc' = [wpc EXCEPT ![w] = "write"]
    /\ UNCHANGED << args, endpoint, mpc, answer, run, ddos_success_count,
                    ddos_failure_count, stop_event, set_calls, spawn_i,
                    join_i, join_waited, elapsed, started, read_s, summary,
                    interrupts, pending_exc, sqli_i, sqli_sent, scanVars,
                    surveyVars, sqliVars, paceVars, bankVars, menuVars,
                    blockVars >>


\* mutant: the counter is loaded without waiting for ddos_log_lock
WorkerRequest_NoLock(w) ==
    /\ Alive
    /\ wpc[w] = "request"
    /\ \E o \in Outcomes(endpoint) :
         /\ wresp' = [wresp EXCEPT ![w] = o]
         /\ wtmp' = [wtmp EXCEPT ![w] = Counter(Classify(o))]
    /\ ddos_log_lock' = w
    /\ wpc' = [wpc EXCEPT ![w] = "write"]
    /\ UNCHANGED << args, endpoint, mpc, answer, run, ddos_success_count,
                    ddos_failure_count, stop_event, set_calls, spawn_i,
                    join_i, join_waited, elapsed, started, read_s, summary,
                    interrupts, pending_exc, sqli_i, sqli_sent, scanVars,
                    surveyVars, sqliVars, paceVars, bankVars, menuVars,
                    blockVars >>


\* session.get returns or raises; the branch for the outcome enters
\* with ddos_log_lock: and loads the counter it is going to increment
WorkerRequest(w) ==
    /\ Alive
    /\ wpc[w] = "request"
    /\ ddos_log_lock = NoThread
    /\ \E o \in Outcomes(endpoint) :
         /\ wresp' = [wresp EXCEPT ![w] = o]
         /\ wtmp' = [wtmp EXCEPT ![w] = Counter(Classify(o))]
    /\ ddos_log_lock' = w
    /\ wpc' = [wpc EXCEPT ![w] = "write"]
    /\ UNCHANGED << args, endpoint, mpc, answer, run, ddos_success_count,
                    ddos_failure_count, stop_event, set_calls, spawn_i,
                    join_i, join_waited, elapsed, started, read_s, summary,
                    interrupts, pending_exc, sqli_i, sqli_sent, scanVars,
                    surveyVars, sqliVars, paceVars, bankVars, menuVars,
                    blockVars >>


\* mutant: the counter is stepped by two
WorkerWrite_CountsTwice(w) ==
    /\ Alive
    /\ wpc[w] = "write"
    /\ IF Classify(wresp[w]) = "success"
       THEN /\ ddos_success_count' = wtmp[w] + 2
            /\ UNCHANGED ddos_failure_count
       ELSE /\ ddos_failure_count' = wtmp[w] + 2
            /\ UNCHANGED ddos_success_count
    /\ ddos_log_lock' = NoThread
    /\ wresp' = [wresp EXCEPT ![w] = NoResponse]
    /\ wtmp' = [wtmp EXCEPT ![w] = 0]
    /\ IF args.rate > 0
       THEN \E ms \in RequestMillis :
                wpc' = [wpc EXCEPT ![w] =
                          IF SleepDuration(args.rate, ms) > 0
                          THEN "sleeping" ELSE "check"]
       ELSE wpc' = [wpc EXCEPT ![w] = "check"]
    /\ UNCHANGED << args, endpoint, mpc, answer, run, stop_event, set_calls,
                    spawn_i, join_i, join_waited, elapsed, started, read_s,
                    summary, interrupts, pending_exc, sqli_i, sqli_sent,
                    scanVars, surveyVars, sqliVars, paceVars, bankVars,
                    menuVars, blockVars >>


\* the store of the counter, log_message, the end of the with block, and the
\* pacing: if rate > 0, sleep (1.0 / rate) - elapsed_time when that is positive
WorkerWrite(w) ==
    /\ Alive
    /\ wpc[w] = "write"
    /\ IF Classify(wresp[w]) = "success"
       THEN /\ ddos_success_count' = wtmp[w] + 1
            /\ UNCHANGED ddos_failure_count
       ELSE /\ ddos_failure_count' = wtmp[w] + 1
            /\ UNCHANGED ddos_success_count
    /\ ddos_log_lock' = NoThread
    /\ wresp' = [wresp EXCEPT ![w] = NoResponse]
    /\ wtmp' = [wtmp EXCEPT ![w] = 0]
    /\ IF args.rate > 0
       THEN \E ms \in RequestMillis :
                wpc' = [wpc EXCEPT ![w] =
                          IF SleepDuration(args.rate, ms) > 0
                          THEN "sleeping" ELSE "check"]
       ELSE wpc' = [wpc EXCEPT ![w] = "check"]
    /\ UNCHANGED << args, endpoint, mpc, answer, run, stop_event, set_calls,
                    spawn_i, join_i, join_waited, elapsed, started, read_s,
                    summary, interrupts, pending_exc, sqli_i, sqli_sent,
                    scanVars, surveyVars, sqliVars, paceVars, bankVars,
                    menuVars, blockVars >>


\* time.sleep(sleep_duration) returns
WorkerWake(w) ==
    /\ Alive
    /\ wpc[w] = "sleeping"
    /\ wpc' = [wpc EXCEPT ![w] = "check"]
    /\ UNCHANGED << args, endpoint, mpc, answer, run, ddos_success_count,
                    ddos_failure_count, ddos_log_lock, stop_event, set_calls,
                    spawn_i, join_i, join_waited, elapsed, wresp, wtmp,
                    started, read_s, summary, interrupts, pending_exc, sqli_i,
                    sqli_sent, scanVars, surveyVars, sqliVars, paceVars,
                    bankVars, menuVars, blockVars >>


\* ------------------------------------------------------------------ main
Call(a) == IF a.mode = "ddos" THEN "reset_s" ELSE "sqli_start"

\* elif args.ddos: / elif args.sqli: and the startswith test in front of the call
MainDispatch ==
    /\ mpc = "main"
    /\ mpc' = IF IsLocalPrefix(args.target) THEN Call(args) ELSE "confirm"
    /\ UNCHANGED << args, endpoint, answer, run, ddos_success_count,
                    ddos_failure_count, ddos_log_lock, stop_event, set_calls,
                    spawn_i, join_i, join_waited, elapsed, wpc, wresp, wtmp,
                    started, read_s, summary, interrupts, pending_exc, sqli_i,
                    sqli_sent, scanVars, surveyVars, sqliVars, paceVars,
                    bankVars, menuVars, blockVars >>


\* if input(...).lower() != 'yes': sys.exit(0)
MainConfirm ==
    /\ mpc = "confirm"
    /\ \E a \in Answers :
         /\ answer' = a
         /\ mpc' = IF Lower(a) # "yes" THEN "aborted" ELSE Call(args)
    /\ UNCHANGED << args, endpoint, run, ddos_success_count,
                    ddos_failure_count, ddos_log_lock, stop_event, set_calls,
                    spawn_i, join_i, join_waited, elapsed, wpc, wresp, wtmp,
                    started, read_s, summary, interrupts, pending_exc, sqli_i,
                    sqli_sent, scanVars, surveyVars, sqliVars, paceVars,
                    bankVars, menuVars, blockVars >>


\* main() returns after simulate_ddos returned: the process ends
MainExit ==
    /\ mpc = "returned"
    /\ mpc' = "exited"
    /\ UNCHANGED << args, endpoint, answer, run, ddos_success_count,
                    ddos_failure_count, ddos_log_lock, stop_event, set_calls,
                    spawn_i, join_i, join_waited, elapsed, wpc, wresp, wtmp,
                    started, read_s, summary, interrupts, pending_exc, sqli_i,
                    sqli_sent, scanVars, surveyVars, sqliVars, paceVars,
                    bankVars, menuVars, blockVars >>


\* --------------------------------------------------------- simulate_sqli
SqliStart ==
    /\ mpc = "sqli_start"
    /\ sqli_i' = 0
    /\ mpc' = "sqli_loop"
    /\ UNCHANGED << args, endpoint, answer, run, ddos_success_count,
                    ddos_failure_count, ddos_log_lock, stop_event, set_calls,
                    spawn_i, join_i, join_waited, elapsed, wpc, wresp, wtmp,
                    started, read_s, summary, interrupts, pending_exc,
                    sqli_sent, scanVars, surveyVars, sqliVars, paceVars,
                    bankVars, menuVars, blockVars >>


\* for i, payload in enumerate(payloads): session.get(...)
SqliSend ==
    /\ mpc = "sqli_loop"
    /\ IF sqli_i < NumPayloads
       THEN /\ sqli_sent' = sqli_sent + 1
            /\ sqli_i' = sqli_i + 1
            /\ UNCHANGED mpc
       ELSE /\ mpc' = "exited"
            /\ UNCHANGED << sqli_i, sqli_sent >>
    /\ UNCHANGED << args, endpoint, answer, run, ddos_success_count,
                    ddos_failure_count, ddos_log_lock, stop_event, set_calls,
                    spawn_i, join_i, join_waited, elapsed, wpc, wresp, wtmp,
                    started, read_s, summary, interrupts, pending_exc,
                    scanVars, surveyVars, sqliVars, paceVars, bankVars,
                    menuVars, blockVars >>


\* --------------------------------------------------------- simulate_ddos
\* ddos_success_count = 0
ResetSuccess ==
    /\ mpc = "reset_s"
    /\ run' = run + 1
    /\ ddos_success_count' = 0
    /\ mpc' = "reset_f"
    /\ UNCHANGED << args, endpoint, answer, ddos_failure_count, ddos_log_lock,
                    stop_event, set_calls, spawn_i, join_i, join_waited,
                    elapsed, wpc, wresp, wtmp, started, read_s, summary,
                    interrupts, pending_exc, sqli_i, sqli_sent, scanVars,
                    surveyVars, sqliVars, paceVars, bankVars, menuVars,
                    blockVars >>


\* ddos_failure_count = 0; threads = []; stop_event = threading.Event()
ResetFailure ==
    /\ mpc = "reset_f"
    /\ ddos_failure_count' = 0
    /\ spawn_i' = 0
    /\ join_i' = 0
    /\ join_waited' = 0
    /\ elapsed' = 0
    /\ pending_exc' = FALSE
    /\ summary' = << >>
    /\ mpc' = "spawn"
    /\ UNCHANGED << args, endpoint, answer, run, ddos_success_count,
                    ddos_log_lock, stop_event, set_calls, wpc, wresp, wtmp,
                    started, read_s, interrupts, sqli_i, sqli_sent, scanVars,
                    surveyVars, sqliVars, paceVars, bankVars, menuVars,
                    blockVars >>


\* for i in range(num_threads): thread.start(); then start_sim_time is taken
Spawn ==
    /\ mpc = "spawn"
    /\ IF spawn_i < args.threads
       THEN /\ wpc' = [wpc EXCEPT ![<< run, spawn_i + 1 >>] = "check"]
            /\ spawn_i' = spawn_i + 1
            /\ UNCHANGED mpc
       ELSE /\ mpc' = "loop_test"
            /\ UNCHANGED << wpc, spawn_i >>
    /\ UNCHANGED << args, endpoint, answer, run, ddos_success_count,
                    ddos_failure_count, ddos_log_lock, stop_event, set_calls,
                    join_i, join_waited, elapsed, wresp, wtmp, started,
                    read_s, summary, interrupts, pending_exc, sqli_i,
                    sqli_sent, scanVars, surveyVars, sqliVars, paceVars,
                    bankVars, menuVars, blockVars >>


\* while time.time() - start_sim_time < duration_seconds: time.sleep(1)
LoopTest ==
    /\ mpc = "loop_test"
    /\ IF elapsed < args.duration
       THEN /\ elapsed' = elapsed + 1
            /\ mpc' = "poll_acquire"
       ELSE /\ mpc' = "finally_set"
            /\ UNCHANGED elapsed
    /\ UNCHANGED << args, endpoint, answer, run, ddos_success_count,
                    ddos_failure_count, ddos_log_lock, stop_event, set_calls,
                    spawn_i, join_i, join_waited, wpc, wresp, wtmp, started,
                    read_s, summary, interrupts, pending_exc, sqli_i,
                    sqli_sent, scanVars, surveyVars, sqliVars, paceVars,
                    bankVars, menuVars, blockVars >>


\* mutant: the progress line is printed without taking ddos_log_lock
PollAcquire_NoLock ==
    /\ mpc = "poll_acquire"
    /\ read_s' = ddos_success_count
    /\ mpc' = "poll_read_f"
    /\ UNCHANGED << args, endpoint, answer, run, ddos_success_count,
                    ddos_failure_count, ddos_log_lock, stop_event, set_calls,
                    spawn_i, join_i, join_waited, elapsed, wpc, wresp, wtmp,
                    started, summary, interrupts, pending_exc, sqli_i,
                    sqli_sent, scanVars, surveyVars, sqliVars, paceVars,
                    bankVars, menuVars, blockVars >>


\* with ddos_log_lock: and the read of ddos_success_count for the progress line
PollAcquire ==
    /\ mpc = "poll_acquire"
    /\ ddos_log_lock = NoThread
    /\ ddos_log_lock' = MainThread
    /\ read_s' = ddos_success_count
    /\ mpc' = "poll_read_f"
    /\ UNCHANGED << args, endpoint, answer, run, ddos_success_count,
                    ddos_failure_count, stop_event, set_calls, spawn_i,
                    join_i, join_waited, elapsed, wpc, wresp, wtmp, started,
                    summary, interrupts, pending_exc, sqli_i, sqli_sent,
                    scanVars, surveyVars, sqliVars, paceVars, bankVars,
                    menuVars, blockVars >>


\* mutant: the progress print does not leave the with block
PollRead_KeepsLock ==
    /\ mpc = "poll_read_f"
    /\ read_s' = 0
    /\ mpc' = IF stop_event[run] THEN "finally_set" ELSE "loop_test"
    /\ UNCHANGED << args, endpoint, answer, run, ddos_success_count,
                    ddos_failure_count, ddos_log_lock, stop_event, set_calls,
                    spawn_i, join_i, join_waited, elapsed, wpc, wresp, wtmp,
                    started, summary, interrupts, pending_exc, sqli_i,
                    sqli_sent, scanVars, surveyVars, sqliVars, paceVars,
                    bankVars, menuVars, blockVars >>


\* the read of ddos_failure_count, the print, the end of the with block, and
\* the if stop_event.is_set(): break
PollRead ==
    /\ mpc = "poll_read_f"
    /\ read_s' = 0
    /\ ddos_log_lock' = NoThread
    /\ mpc' = IF stop_event[run] THEN "finally_set" ELSE "loop_test"
    /\ UNCHANGED << args, endpoint, answer, run, ddos_success_count,
                    ddos_failure_count, stop_event, set_calls, spawn_i,
                    join_i, join_waited, elapsed, wpc, wresp, wtmp, started,
                    summary, interrupts, pending_exc, sqli_i, sqli_sent,
                    scanVars, surveyVars, sqliVars, paceVars, bankVars,
                    menuVars, blockVars >>


\* mutant: the KeyboardInterrupt handler sets the signal itself as well
Except_SetsSignal ==
    /\ mpc = "except"
    /\ stop_event' = [stop_event EXCEPT ![run] = TRUE]
    /\ set_calls' = [set_calls EXCEPT ![run] = @ + 1]
    /\ mpc' = "finally_set"
    /\ UNCHANGED << args, endpoint, answer, run, ddos_success_count,
                    ddos_failure_count, ddos_log_lock, spawn_i, join_i,
                    join_waited, elapsed, wpc, wresp, wtmp, started, read_s,
                    summary, interrupts, pending_exc, sqli_i, sqli_sent,
                    scanVars, surveyVars, sqliVars, paceVars, bankVars,
                    menuVars, blockVars >>


\* except KeyboardInterrupt: print, log_message
Except ==
    /\ mpc = "except"
    /\ mpc' = "finally_set"
    /\ UNCHANGED << args, endpoint, answer, run, ddos_success_count,
                    ddos_failure_count, ddos_log_lock, stop_event, set_calls,
                    spawn_i, join_i, join_waited, elapsed, wpc, wresp, wtmp,
                    started, read_s, summary, interrupts, pending_exc, sqli_i,
                    sqli_sent, scanVars, surveyVars, sqliVars, paceVars,
                    bankVars, menuVars, blockVars >>


\* finally: stop_event.set()
FinallySet ==
    /\ mpc = "finally_set"
    /\ stop_event' = [stop_event EXCEPT ![run] = TRUE]
    /\ set_calls' = [set_calls EXCEPT ![run] = @ + 1]
    /\ join_i' = 0
    /\ mpc' = "join"
    /\ UNCHANGED << args, endpoint, answer, run, ddos_success_count,
                    ddos_failure_count, ddos_log_lock, spawn_i, join_waited,
                    elapsed, wpc, wresp, wtmp, started, read_s, summary,
                    interrupts, pending_exc, sqli_i, sqli_sent, scanVars,
                    surveyVars, sqliVars, paceVars, bankVars, menuVars,
                    blockVars >>


\* for thread in threads: thread.join(timeout=5) -- returns at once when the
\* thread has exited, and otherwise when it exits or when the timeout
\* expires, whichever comes first; join_waited counts the expired timeouts
Join ==
    /\ mpc = "join"
    /\ IF join_i < spawn_i
       THEN /\ join_i' = join_i + 1
            /\ join_waited' = IF wpc[<< run, join_i + 1 >>] = "exited"
                               THEN join_waited
                               ELSE join_waited + JOIN_TIMEOUT
            /\ UNCHANGED mpc
       ELSE /\ mpc' = IF pending_exc THEN "crashed" ELSE "final_acquire"
            /\ UNCHANGED << join_i, join_waited >>
    /\ UNCHANGED << args, endpoint, answer, run, ddos_success_count,
                    ddos_failure_count, ddos_log_lock, stop_event, set_calls,
                    spawn_i, elapsed, wpc, wresp, wtmp, started, read_s,
                    summary, interrupts, pending_exc, sqli_i, sqli_sent,
                    scanVars, surveyVars, sqliVars, paceVars, bankVars,
                    menuVars, blockVars >>


\* with ddos_log_lock: print(Total Successful Requests)
FinalAcquire ==
    /\ mpc = "final_acquire"
    /\ ddos_log_lock = NoThread
    /\ ddos_log_lock' = MainThread
    /\ read_s' = ddos_success_count
    /\ mpc' = "final_read_f"
    /\ UNCHANGED << args, endpoint, answer, run, ddos_success_count,
                    ddos_failure_count, stop_event, set_calls, spawn_i,
                    join_i, join_waited, elapsed, wpc, wresp, wtmp, started,
                    summary, interrupts, pending_exc, sqli_i, sqli_sent,
                    scanVars, surveyVars, sqliVars, paceVars, bankVars,
                    menuVars, blockVars >>


\* print(Total Failed/Warning Requests); total_requests = ...;
\* log_message(DDoS_SIM_END ...); end of the with block
FinalRead ==
    /\ mpc = "final_read_f"
    /\ summary' = << ddos_success_count, ddos_failure_count,
                     ddos_success_count + ddos_failure_count >>
    /\ read_s' = 0
    /\ ddos_log_lock' = NoThread
    /\ mpc' = "returned"
    /\ UNCHANGED << args, endpoint, answer, run, ddos_success_count,
                    ddos_failure_count, stop_event, set_calls, spawn_i,
                    join_i, join_waited, elapsed, wpc, wresp, wtmp, started,
                    interrupts, pending_exc, sqli_i, sqli_sent, scanVars,
                    surveyVars, sqliVars, paceVars, bankVars, menuVars,
                    blockVars >>


\* Ctrl+C: KeyboardInterrupt is raised in the main thread between two of its
\* statements.  Inside the try body it is handled; inside the handler the
\* finally block runs and the exception goes on; anywhere else in
\* simulate_ddos it leaves the function and ends the process.  (An interrupt
\* before the counters are reset ends the process before the run has begun.)
TryBody == {"loop_test", "poll_acquire", "poll_read_f"}
Unprotected == {"spawn", "finally_set", "join", "final_acquire", "final_read_f"}

KeyboardInterrupt ==
    /\ interrupts < MaxInterrupts
    /\ mpc \in TryBody \cup {"except"} \cup Unprotected
    /\ interrupts' = interrupts + 1
    /\ ddos_log_lock' = IF ddos_log_lock = MainThread THEN NoThread ELSE ddos_log_lock
    /\ read_s' = 0
    /\ mpc' = CASE mpc \in TryBody -> "except"
                [] mpc = "except" -> "finally_set"
                [] OTHER -> "crashed"
    /\ pending_exc' = IF mpc = "except" THEN TRUE ELSE pending_exc
    /\ UNCHANGED << args, endpoint, answer, run, ddos_success_count,
                    ddos_failure_count, stop_event, set_calls, spawn_i,
                    join_i, join_waited, elapsed, wpc, wresp, wtmp, started,
                    summary, sqli_i, sqli_sent, scanVars, surveyVars,
                    sqliVars, paceVars, bankVars, menuVars, blockVars >>


\* a caller other than main() calls simulate_ddos again in the same process
Rerun ==
    /\ mpc = "returned"
    /\ run < MaxRuns
    /\ mpc' = "reset_s"
    /\ UNCHANGED << args, endpoint, answer, run, ddos_success_count,
                    ddos_failure_count, ddos_log_lock, stop_event, set_calls,
                    spawn_i, join_i, join_waited, elapsed, wpc, wresp, wtmp,
                    started, read_s, summary, interrupts, pending_exc, sqli_i,
                    sqli_sent, scanVars, surveyVars, sqliVars, paceVars,
                    bankVars, menuVars, blockVars >>


\* ------------------------------------------------------- specifications
Worker(w) ==
    \/ WorkerCheck(w) \/ WorkerRequest(w) \/ WorkerWrite(w) \/ WorkerWake(w)

Orchestrator ==
    \/ ResetSuccess \/ ResetFailure \/ Spawn \/ LoopTest
    \/ PollAcquire \/ PollRead \/ Except \/ FinallySet \/ Join
    \/ FinalAcquire \/ FinalRead

Next ==
    \/ MainDispatch \/ MainConfirm \/ MainExit
    \/ SqliStart \/ SqliSend
    \/ Orchestrator
    \/ KeyboardInterrupt
    \/ \E w \in Wid : Worker(w)

Spec == Init /\ [][Next]_vars

\* simulate_ddos called repeatedly in one process, one worker per call
InitRuns ==
    /\ Init
    /\ args.mode = "ddos"
    /\ args.target = DefaultTarget
    /\ args.threads = 1
    /\ args.duration >= 0

NextRuns ==
    \/ MainDispatch \/ MainExit \/ Rerun
    \/ Orchestrator
    \/ KeyboardInterrupt
    \/ \E w \in Wid : Worker(w)

SpecRuns == InitRuns /\ [][NextRuns]_vars

\* the pool run alone, uninterrupted, against an endpoint with one outcome,
\* under the scheduling the lock claims assume: a thread that holds the lock
\* goes on, the main thread goes on, and a worker that waits for the lock
\* gets it if it is free again and again
InitFair ==
    /\ Init
    /\ args.mode = "ddos"
    /\ args.target = DefaultTarget
    /\ endpoint # "mixed" \/ args.rate > 0

MainSteps ==
    \/ MainDispatch \/ MainExit
    \/ ResetSuccess \/ ResetFailure \/ Spawn \/ LoopTest
    \/ PollAcquire \/ PollRead \/ FinallySet \/ Join
    \/ FinalAcquire \/ FinalRead

NextFair ==
    \/ MainSteps
    \/ \E w \in Wid : Worker(w)

\* the workers of the first call of simulate_ddos
Pool == {w \in Wid : w[1] = 1}

Fairness ==
    /\ WF_vars(MainSteps)
    /\ \A w \in Pool : WF_vars(WorkerWrite(w)) /\ SF_vars(WorkerRequest(w))

SpecFair == InitFair /\ [][NextFair]_vars /\ Fairness

TypeOK ==
    /\ mpc \in {"main", "confirm", "aborted", "exited", "crashed", "returned",
                "sqli_start", "sqli_loop", "reset_s", "reset_f", "spawn",
                "loop_test", "poll_acquire", "poll_read_f", "except",
                "finally_set", "join", "final_acquire", "final_read_f"}
    /\ ddos_success_count \in Nat
    /\ ddos_failure_count \in Nat
    /\ run \in 0..MaxRuns

\* ================================================================ claims
IsDdos == args.mode = "ddos"
Is2xx(o) == o.kind = "response" /\ o.status >= 200 /\ o.status <= 299

\* C1: in a pool run every completed request adds exactly one to exactly one
\* counter -- success for a 2xx response, failure for any other response or
\* an exception -- so success + failure always equals the number of request
\* iterations the workers have completed; no update is lost or counted twice.
C1_EachRequestCountedOnce ==
    /\ [](ddos_success_count + ddos_failure_count = TotalCompleted)
    /\ [][\A w \in Wid :
            (wpc[w] = "write" /\ wpc'[w] # "write") =>
                IF Is2xx(wresp[w])
                THEN /\ ddos_success_count' = ddos_success_count + 1
                     /\ ddos_failure_count' = ddos_failure_count
                ELSE /\ ddos_failure_count' = ddos_failure_count + 1
                     /\ ddos_success_count' = ddos_success_count]_vars

\* a success has been counted and one worker is recording a failed request
\* under the lock while another worker's request is in flight
C1_Witness ==
    /\ ddos_success_count >= 1
    /\ \E v, w \in Wid :
          /\ v # w
          /\ wpc[v] = "write" /\ ~Is2xx(wresp[v])
          /\ wpc[w] = "request"

\* C2: every write of the counters (the workers' increments and the reset at
\* the start of simulate_ddos) and every read of them (progress line, final
\* summary) happens while the accessing thread holds ddos_log_lock.
C2_EveryAccessUnderLock ==
    [][/\ (ResetSuccess \/ ResetFailure \/ PollRead \/ FinalRead)
            => ddos_log_lock = MainThread
       /\ (PollAcquire \/ FinalAcquire) => ddos_log_lock' = MainThread
       /\ \A w \in Wid : /\ WorkerRequest(w) => ddos_log_lock' = w
                         /\ WorkerWrite(w) => ddos_log_lock = w]_vars

\* C3: the (success, failure) pair the orchestrator reads for the progress
\* line and for the summary is never torn: the success count read first is
\* still the counter's value when the failure count is read, so the pair is
\* the pair the counters hold at that moment; and the logged summary repeats
\* the printed pair with its sum.
C3_SnapshotNeverTorn ==
    [][/\ (PollRead \/ FinalRead) => read_s = ddos_success_count
       /\ FinalRead =>
              summary' = << read_s, ddos_failure_count,
                            read_s + ddos_failure_count >>]_vars

\* the poller is between its two reads, holding the lock, both counters are
\* above zero and a worker's request is in flight
C3_Witness ==
    /\ mpc = "poll_read_f"
    /\ ddos_log_lock = MainThread
    /\ ddos_success_count >= 1
    /\ ddos_failure_count >= 1
    /\ \E w \in Wid : wpc[w] = "request"

\* C4: the cancellation signal of a pool run starts unset, is set exactly
\* once by the orchestrator whichever way the timed phase ends (duration
\* elapsed, Ctrl+C, early stop), and once set is never cleared.
BeforeSet == {"reset_f", "spawn", "loop_test", "poll_acquire", "poll_read_f",
              "except", "finally_set"}
AfterSet == {"join", "final_acquire", "final_read_f", "returned"}

C4_SignalSetExactlyOnce ==
    /\ [](\A r \in Runs : set_calls[r] <= 1 /\ (stop_event[r] <=> set_calls[r] = 1))
    /\ []((IsDdos /\ run >= 1 /\ mpc \in BeforeSet) => ~stop_event[run])
    /\ []((IsDdos /\ run >= 1 /\ mpc \in AfterSet) => stop_event[run])
    /\ [][\A r \in Runs : stop_event[r] => stop_event'[r]]_vars

\* the timed phase was ended by Ctrl+C and the signal has been set, once
C4_Witness ==
    /\ interrupts >= 1
    /\ mpc = "join"
    /\ stop_event[run]
    /\ set_calls[run] = 1

\* C5: a Ctrl+C at any point of simulate_ddos after the counters are reset
\* still leads to the signal being set and the DDoS_SIM_END summary being
\* logged.
C5_InterruptStillSummarises ==
    (IsDdos /\ interrupts >= 1 /\ mpc \in Terminal \cup {"returned"}) =>
        (stop_event[run] /\ summary # << >>)

\* C6: a worker leaves its loop only at the loop test with the signal set;
\* whatever a request does (any status, a transport failure, any other
\* exception) the outcome is recorded, a failure on the failure counter, and
\* the worker goes on to pace itself and test the signal again.
C6_WorkerStopsOnlyOnSignal ==
    [][\A w \in Wid :
         /\ (wpc[w] # "exited" /\ wpc'[w] = "exited") =>
                (wpc[w] = "check" /\ stop_event[w[1]])
         /\ (wpc[w] = "request" /\ wpc'[w] # "request") =>
                (wpc'[w] = "write" /\ wresp'[w] \in Outcomes(endpoint))
         /\ (wpc[w] = "write" /\ wpc'[w] # "write") =>
                /\ wpc'[w] \in {"check", "sleeping"}
                /\ ~Is2xx(wresp[w]) =>
                       ddos_failure_count' = ddos_failure_count + 1]_vars

\* a single worker has recorded a failed request and, the signal still being
\* unset, has made its next request, which raised an unexpected exception
C6_Witness ==
    /\ IsDdos /\ args.threads = 1
    /\ ~stop_event[1]
    /\ ddos_failure_count = 1
    /\ started[1] = 2
    /\ wpc[<< 1, 1 >>] = "write"
    /\ wresp[<< 1, 1 >>].kind = "Exception"

\* C7: a pool run with a worker count <= 0, a negative rate or a duration
\* <= 0 is rejected before any worker is spawned or any request sent.
InvalidConfig(a) == a.threads <= 0 \/ a.rate < 0 \/ a.duration <= 0

C7_InvalidConfigRejected ==
    (IsDdos /\ InvalidConfig(args)) =>
        (TotalStarted = 0 /\ \A w \in Wid : wpc[w] = "unstarted")

\* C8: the counters a later call of simulate_ddos reports count only the
\* requests of that call's own workers, whatever the earlier call's join did.
C8_RunCountsOwnRequests ==
    (run >= 2 /\ mpc = "final_read_f") =>
        ddos_success_count + ddos_failure_count = Completed(run)

\* C9: no pool run and no payload probe is started against a target whose
\* host is not localhost or 127.0.0.1 unless the operator answered yes.
RECURSIVE FindFrom(_, _, _)
FindFrom(s, c, i) ==
    IF i > Len(s) THEN 0
    ELSE IF SubSeq(s, i, i) = c THEN i ELSE FindFrom(s, c, i + 1)

TargetNetloc(url) ==
    LET p == FindFrom(url, ":", 1)
    IN IF p = 0 \/ p + 2 > Len(url) THEN ""
       ELSE IF SubSeq(url, p, p + 2) # "://" THEN ""
       ELSE LET e == FindFrom(url, "/", p + 3)
            IN SubSeq(url, p + 3, IF e = 0 THEN Len(url) ELSE e - 1)

TargetHost(url) ==
    LET n == TargetNetloc(url)
        c == FindFrom(n, ":", 1)
    IN IF c = 0 THEN n ELSE SubSeq(n, 1, c - 1)

IsLocalHost(url) == TargetHost(url) \in {"localhost", "127.0.0.1"}

C9_NonLocalNeedsYes ==
    (\/ mpc \notin {"main", "confirm", "aborted"}
     \/ \E w \in Wid : wpc[w] # "unstarted"
     \/ TotalStarted > 0
     \/ sqli_sent > 0)
    => (IsLocalHost(args.target) \/ Lower(answer) = "yes")

\* C10 as stated: with at least one worker, rate 0 and an endpoint that
\* always answers 200, the summary reports no failure and at least one
\* success.  (Stated here for the runs that are most favourable to it: a
\* positive duration, no Ctrl+C, and every worker's request under way when
\* simulate_ddos returns.)
Always200Run ==
    /\ IsDdos /\ args.threads >= 1 /\ args.rate = 0
    /\ endpoint = "always200"

C10_FinalSuccessPositive ==
    (/\ Always200Run /\ args.duration >= 1 /\ interrupts = 0
     /\ \A w \in Wid : (w[1] = 1 /\ w[2] <= args.threads) => wpc[w] = "request"
     /\ mpc = "returned")
        => (summary[2] = 0 /\ summary[1] > 0)

\* C10 amended: in such a run the failure counter is 0 in every state, and
\* the summary reports as successes exactly the requests the workers had
\* completed when it was read -- none, when the signal was set before any
\* worker completed a request.
C10_NoFailureAndSuccessIsCompleted ==
    Always200Run =>
        /\ ddos_failure_count = 0
        /\ mpc = "final_read_f" => ddos_success_count = TotalCompleted
        /\ summary # << >> =>
               /\ summary[2] = 0
               /\ summary[1] = summary[3]
               /\ summary[1] <= TotalCompleted

\* the summary of such a run reports two completed requests and no failure
C10_Witness ==
    /\ Always200Run
    /\ mpc = "returned"
    /\ summary # << >>
    /\ summary[1] >= 2

\* C11: in a pool run against an unreachable endpoint (every request fails
\* at transport level) the success counter is 0 in every state, the failure
\* counter equals the number of requests the workers have completed, and the
\* summary reports no success and as failures (and total) the requests
\* completed when it was read.
UnreachableRun == IsDdos /\ endpoint = "unreachable"

C11_UnreachableAllFailures ==
    /\ [](UnreachableRun =>
            /\ ddos_success_count = 0
            /\ ddos_failure_count = TotalCompleted
            /\ summary # << >> => (summary[1] = 0 /\ summary[2] = summary[3]))
    /\ [][(UnreachableRun /\ FinalRead) => summary'[2] = TotalCompleted]_vars

\* the summary of such a run reports two failed requests
C11_Witness ==
    /\ UnreachableRun
    /\ mpc = "returned"
    /\ summary # << >>
    /\ summary[2] >= 2

\* C12: after the signal is set simulate_ddos waits for its workers for at
\* most one grace period (JOIN_TIMEOUT seconds) in total, whatever the number
\* of workers and even when none of them exits.
C12_JoinWaitsOneGracePeriod ==
    (IsDdos /\ run >= 1 /\ mpc \in {"final_acquire", "final_read_f", "returned"})
        => join_waited <= JOIN_TIMEOUT

\* C13: the progress read does not block the workers: whoever holds
\* ddos_log_lock (the poller between its two reads, a worker between its load
\* and its store) is at a step that waits for nothing, and a worker whose
\* request needs the lock gets it (unless the process has ended).
C13_PollDoesNotBlockWorkers ==
    /\ [](ddos_log_lock = MainThread => mpc \in {"poll_read_f", "final_read_f"})
    /\ []((ddos_log_lock # NoThread /\ ddos_log_lock # MainThread)
             => wpc[ddos_log_lock] = "write")
    /\ \A w \in Pool : (wpc[w] = "request") ~> (wpc[w] = "write" \/ ~Alive)

\* the poller holds the lock while the requests of two workers wait for it
C13_Witness ==
    /\ mpc = "poll_read_f"
    /\ ddos_log_lock = MainThread
    /\ \E v, w \in Wid : v # w /\ wpc[v] = "request" /\ wpc[w] = "request"

\* ============================================ cancellation of the pool
\* the pool run in a process that lives on after simulate_ddos has returned
\* (the threads are daemon threads: when the process ends they end with it),
\* under fair scheduling of every thread: the main thread and the lock as in
\* SpecFair, and a worker at its loop test or at the end of its sleep goes on
CancelMainSteps ==
    \/ MainDispatch
    \/ ResetSuccess \/ ResetFailure \/ Spawn \/ LoopTest
    \/ PollAcquire \/ PollRead \/ FinallySet \/ Join
    \/ FinalAcquire \/ FinalRead

NextCancel ==
    \/ CancelMainSteps
    \/ \E w \in Wid : Worker(w)

CancelFairness ==
    /\ WF_vars(CancelMainSteps)
    /\ \A w \in Pool :
          /\ WF_vars(WorkerCheck(w))
          /\ SF_vars(WorkerRequest(w))
          /\ WF_vars(WorkerWrite(w))
          /\ WF_vars(WorkerWake(w))

SpecCancel == InitFair /\ [][NextCancel]_vars /\ CancelFairness

Attempts == ddos_success_count + ddos_failure_count
Pending == { w \in Wid : w[1] = run /\ wpc[w] \in { "request", "write" } }

\* C33: once stop_event is set, no worker of the run starts a request; a
\* counter grows only by one, by the store of a worker whose request was in
\* flight and is no longer so afterwards; so each worker counts at most one
\* more request, and the requests counted plus the workers with a request in
\* flight, which are at most the workers of the run, never grow.
C33_AtMostOneMorePerWorker ==
    [][(run >= 1 /\ run' = run /\ stop_event[run]) =>
          /\ \A w \in Pending' : w \in Pending
          /\ Attempts' > Attempts =>
                /\ Attempts' = Attempts + 1
                /\ \E w \in Pending : wpc[w] = "write" /\ w \notin Pending'
          /\ Attempts' + Cardinality(Pending') <= Attempts + Cardinality(Pending)
          /\ Cardinality(Pending) <= spawn_i]_vars

\* the summary was printed after the signal was set, and a worker has counted
\* a request since
C33_Witness ==
    /\ mpc = "returned"
    /\ stop_event[run]
    /\ summary # << >>
    /\ Attempts = summary[3] + 1

\* ================================================= scan_text_for_keywords
\* inputs
Texts == { "", "sex", "Essex", "no SEX here", "sex bet", "sex_bet",
           "adults 18+ only", "18+" }
KeywordPool == { "sex", "bet", "18+" }
KeywordLists == UNION { [1..n -> KeywordPool] : n \in 0..MaxKeywords }

\* the characters the regular expression class \w matches (ASCII)
WordChars == "abcdefghijklmnopqrstuvwxyzABCDEFGHIJKLMNOPQRSTUVWXYZ0123456789_"
IsWordChar(c) == \E i \in 1..Len(WordChars) : SubSeq(WordChars, i, i) = c

\* \b between the characters p and p + 1 of s: exactly one side is a word
\* character; the ends of the string count as non-word
IsBoundary(s, p) ==
    LET left == p >= 1 /\ IsWordChar(SubSeq(s, p, p))
        right == p < Len(s) /\ IsWordChar(SubSeq(s, p + 1, p + 1))
    IN left # right

\* \b + re.escape(keyword) + \b matches at position i of s, ignoring case
MatchesAt(keyword, s, i) ==
    LET e == i + Len(keyword) - 1
    IN /\ e <= Len(s)
       /\ Lower(SubSeq(s, i, e)) = Lower(keyword)
       /\ IsBoundary(s, i - 1)
       /\ IsBoundary(s, e)

\* re.search(r'\b' + re.escape(keyword) + r'\b', text, re.IGNORECASE)
ReSearch(keyword, text) ==
    \E i \in 1..(Len(text) + 1) : MatchesAt(keyword, text, i)

\* the lists list(S) can return: the members of S, each once, in any order
ListsOf(S) ==
    { f \in [1..Cardinality(S) -> S] :
        \A i, j \in 1..Cardinality(S) : i # j => f[i] # f[j] }

InitScan ==
    /\ DdosIdle
    /\ SurveyIdle
    /\ BlockIdle
    /\ SqliIdle
    /\ PaceIdle
    /\ BankIdle
    /\ MenuIdle
    /\ scan_text \in Texts
    /\ scan_keywords \in KeywordLists
    /\ scan_i = 0
    /\ found_keywords = {}
    /\ scan_pc = "loop"
    /\ scan_result = << >>

\* for keyword in keywords: if re.search(...): found_keywords.add(keyword)
ScanStep ==
    /\ scan_pc = "loop"
    /\ scan_i < Len(scan_keywords)
    /\ scan_i' = scan_i + 1
    /\ LET keyword == scan_keywords[scan_i + 1]
       IN found_keywords' = IF ReSearch(keyword, scan_text)
                            THEN found_keywords \cup {keyword}
                            ELSE found_keywords
    /\ UNCHANGED << ddosVars, scan_text, scan_keywords, scan_pc, scan_result,
                    surveyVars, sqliVars, paceVars, bankVars, menuVars,
                    blockVars >>


\* return list(found_keywords)
ScanReturn ==
    /\ scan_pc = "loop"
    /\ scan_i = Len(scan_keywords)
    /\ scan_result' \in ListsOf(found_keywords)
    /\ scan_pc' = "returned"
    /\ UNCHANGED << ddosVars, scan_text, scan_keywords, scan_i,
                    found_keywords, surveyVars, sqliVars, paceVars, bankVars,
                    menuVars, blockVars >>


NextScan == ScanStep \/ ScanReturn

SpecScan == InitScan /\ [][NextScan]_vars

\* ---------------------------------------------------------------- claims
\* keyword occurs in text (ignoring case) with no word character next to it
StandaloneAt(keyword, text, i) ==
    LET e == i + Len(keyword) - 1
    IN /\ Len(keyword) >= 1
       /\ e <= Len(text)
       /\ Lower(SubSeq(text, i, e)) = Lower(keyword)
       /\ i = 1 \/ ~IsWordChar(SubSeq(text, i - 1, i - 1))
       /\ e = Len(text) \/ ~IsWordChar(SubSeq(text, e + 1, e + 1))

OccursStandalone(keyword, text) ==
    \E i \in 1..Len(text) : StandaloneAt(keyword, text, i)

Range(s) == { s[i] : i \in 1..Len(s) }

\* C14: scan_text_for_keywords(T, K) contains only members of K, each at most
\* once; it contains every keyword of K that occurs in T as a standalone word
\* in any letter case; and every keyword it contains occurs in T as a
\* standalone word, not only inside a longer word.
C14_ScanFindsStandaloneWords ==
    scan_pc = "returned" =>
        /\ Range(scan_result) \subseteq Range(scan_keywords)
        /\ \A i, j \in 1..Len(scan_result) : i # j => scan_result[i] # scan_result[j]
        /\ \A k \in Range(scan_keywords) :
              OccursStandalone(k, scan_text) => k \in Range(scan_result)
        /\ \A k \in Range(scan_result) : OccursStandalone(k, scan_text)

\* ======================================= survey_website, survey_websites
\* inputs
SurveyUrls == { "http://a.test", "b.test" }
Batches == UNION { [1..n -> SurveyUrls] : n \in 1..MaxUrls }
SurveyKeywords == << "gambling", "sex" >>
HtmlTypes == { "text/html; charset=utf-8", "TEXT/HTML" }
OtherTypes == { "application/json", "" }
PageTexts == { "welcome", "online gambling site" }
PageLinks == { << >>, << [href |-> "/sex/index", text |-> "more"] >> }
OcrTexts == { "", "gambling" }

\* what requests.get and raise_for_status can give for a URL
Pages ==
    { [NoPage EXCEPT !.fetch = "RequestException"] }
    \cup { [NoPage EXCEPT !.fetch = "ok", !.ctype = ct] : ct \in OtherTypes }
    \cup { [fetch |-> "ok", ctype |-> ct, text |-> t, links |-> l,
            ocr_text |-> o] :
             ct \in HtmlTypes, t \in PageTexts, l \in PageLinks, o \in OcrTexts }

\* sub in s
Contains(s, sub) ==
    \E i \in 1..(Len(s) + 1) :
        i + Len(sub) - 1 <= Len(s) /\ SubSeq(s, i, i + Len(sub) - 1) = sub

\* 'text/html' in response.headers.get('content-type', '').lower()
IsHtml(ct) == Contains(Lower(ct), "text/html")

\* survey_websites: add the scheme if missing
Normalize(u) ==
    IF StartsWith(u, "http://") \/ StartsWith(u, "https://")
    THEN u ELSE "http://" \o u

\* scan_text_for_keywords, as the set of the keywords it returns
Scan(text, kws) == { k \in Range(kws) : ReSearch(k, text) }

\* the keywords of the text and of the links' URLs and anchor texts
TextAndLinkKeywords(p, kws) ==
    Scan(p.text, kws)
    \cup UNION { Scan(p.links[i].href, kws) \cup Scan(p.links[i].text, kws) :
                 i \in 1..Len(p.links) }

\* The name pytesseract inside survey_website.  The function assigns to it
\* (pytesseract = None in the TesseractNotFoundError handler) and does not
\* declare it global, so the name is a local variable of the function; the
\* assignment comes after the first read, so at that read it is unbound and
\* the read raises UnboundLocalError, whatever main() imported.
PytesseractInSurvey == "unbound"

\* mutant: the handlers return the keywords found so far
ErrorResult_KeepsKeywords(u, reason) ==
    [url |-> u, status |-> "error", reason |-> reason,
     matched_keywords |-> all_found_keywords, content_type |-> "error"]

\* the dict returned by the two except clauses of survey_website
ErrorResult(u, reason) ==
    [url |-> u, status |-> "error", reason |-> reason,
     matched_keywords |-> {}, content_type |-> "error"]

SkippedResult(u, ct) ==
    [url |-> u, status |-> "skipped",
     reason |-> "Non-HTML content (Content-Type: " \o ct \o ")",
     matched_keywords |-> {}, content_type |-> "other"]

\* the dict returned at the end of the HTML branch
HtmlResult(u, found) ==
    IF found # {}
    THEN [url |-> u, status |-> "red_flag", reason |-> "Keywords found",
          matched_keywords |-> found,
          content_type |-> "mixed (text/links/images)"]
    ELSE [url |-> u, status |-> "ok", reason |-> "No keywords found",
          matched_keywords |-> {},
          content_type |-> "mixed (text/links/images)"]

LogLine(kind) == [kind |-> kind, url |-> survey_url, i |-> survey_i + 1]

InitSurvey ==
    /\ DdosIdle
    /\ ScanIdle
    /\ BlockIdle
    /\ SqliIdle
    /\ PaceIdle
    /\ BankIdle
    /\ MenuIdle
    /\ ocr_installed \in BOOLEAN
    /\ keywords = SurveyKeywords
    /\ urls \in Batches
    /\ survey_i = 0
    /\ spc = "next"
    /\ survey_url = ""
    /\ page = NoPage
    /\ all_found_keywords = {}
    /\ result = NoResult
    /\ flagged_sites = << >>
    /\ survey_log = << >>

\* for i, url in enumerate(urls): ... result = survey_website(url, keywords);
\* after the loop the summary is printed and flagged_sites returned
SurveyNext ==
    /\ spc = "next"
    /\ IF survey_i < Len(urls)
       THEN /\ survey_url' = Normalize(urls[survey_i + 1])
            /\ page' = NoPage
            /\ all_found_keywords' = {}
            /\ result' = NoResult
            /\ spc' = "fetch"
       ELSE /\ spc' = "done"
            /\ UNCHANGED << survey_url, page, all_found_keywords, result >>
    /\ UNCHANGED << ddosVars, scanVars, ocr_installed, keywords, urls,
                    survey_i, flagged_sites, survey_log, sqliVars, paceVars,
                    bankVars, menuVars, blockVars >>


\* requests.get, raise_for_status, the content-type test; the
\* RequestException handler; the non-HTML branch
SurveyFetch ==
    /\ spc = "fetch"
    /\ \E p \in Pages :
         /\ page' = p
         /\ IF p.fetch = "RequestException"
            THEN /\ survey_log' = Append(survey_log, LogLine("ERROR"))
                 /\ result' = ErrorResult(survey_url, "connection refused")
                 /\ spc' = "record"
            ELSE IF IsHtml(p.ctype)
            THEN /\ spc' = "scan"
                 /\ UNCHANGED << survey_log, result >>
            ELSE /\ result' = SkippedResult(survey_url, Lower(p.ctype))
                 /\ spc' = "record"
                 /\ UNCHANGED survey_log
    /\ UNCHANGED << ddosVars, scanVars, ocr_installed, keywords, urls,
                    survey_i, survey_url, all_found_keywords, flagged_sites,
                    sqliVars, paceVars, bankVars, menuVars, blockVars >>


\* BeautifulSoup, the text blocks, the link loop
SurveyScan ==
    /\ spc = "scan"
    /\ all_found_keywords' = TextAndLinkKeywords(page, keywords)
    /\ spc' = "ocr"
    /\ UNCHANGED << ddosVars, scanVars, ocr_installed, keywords, urls,
                    survey_i, survey_url, page, result, flagged_sites,
                    survey_log, sqliVars, paceVars, bankVars, menuVars,
                    blockVars >>


\* if pytesseract and Image and p_io: ... the image loop; the returns of the
\* HTML branch; the except Exception handler
SurveyOcr ==
    /\ spc = "ocr"
    /\ IF PytesseractInSurvey = "unbound"
       THEN /\ survey_log' = Append(survey_log, LogLine("UNEXPECTED ERROR"))
            /\ result' = ErrorResult(survey_url,
                             "Unexpected: cannot access local variable")
            /\ UNCHANGED all_found_keywords
       ELSE /\ all_found_keywords' =
                  all_found_keywords
                  \cup (IF ocr_installed THEN Scan(page.ocr_text, keywords)
                        ELSE {})
            /\ result' = HtmlResult(survey_url, all_found_keywords')
            /\ UNCHANGED survey_log
    /\ spc' = "record"
    /\ UNCHANGED << ddosVars, scanVars, ocr_installed, keywords, urls,
                    survey_i, survey_url, page, flagged_sites, sqliVars,
                    paceVars, bankVars, menuVars, blockVars >>


\* mutant: an error result is flagged too
SurveyRecord_FlagsErrors ==
    /\ spc = "record"
    /\ IF result.status \in { "red_flag", "error" }
       THEN /\ flagged_sites' = Append(flagged_sites, result)
            /\ survey_log' = Append(survey_log, LogLine("RED FLAG"))
       ELSE IF result.status = "ok"
       THEN /\ survey_log' = Append(survey_log, LogLine("OK"))
            /\ UNCHANGED flagged_sites
       ELSE UNCHANGED << flagged_sites, survey_log >>
    /\ survey_i' = survey_i + 1
    /\ spc' = "next"
    /\ UNCHANGED << ddosVars, scanVars, ocr_installed, keywords, urls,
                    survey_url, page, all_found_keywords, result, sqliVars,
                    paceVars, bankVars, menuVars, blockVars >>


\* survey_websites: if result: red_flag -> flagged_sites.append, log RED FLAG;
\* ok -> log OK; nothing for the other statuses
SurveyRecord ==
    /\ spc = "record"
    /\ IF result.status = "red_flag"
       THEN /\ flagged_sites' = Append(flagged_sites, result)
            /\ survey_log' = Append(survey_log, LogLine("RED FLAG"))
       ELSE IF result.status = "ok"
       THEN /\ survey_log' = Append(survey_log, LogLine("OK"))
            /\ UNCHANGED flagged_sites
       ELSE UNCHANGED << flagged_sites, survey_log >>
    /\ survey_i' = survey_i + 1
    /\ spc' = "next"
    /\ UNCHANGED << ddosVars, scanVars, ocr_installed, keywords, urls,
                    survey_url, page, all_found_keywords, result, sqliVars,
                    paceVars, bankVars, menuVars, blockVars >>


NextSurvey ==
    \/ SurveyNext \/ SurveyFetch \/ SurveyScan \/ SurveyOcr \/ SurveyRecord

SpecSurvey == InitSurvey /\ [][NextSurvey]_vars

\* ---------------------------------------------------------------- claims
\* survey_website has returned for a page fetched with an HTML content type
HtmlSurveyed == spc = "record" /\ page.fetch = "ok" /\ IsHtml(page.ctype)

\* C15: surveying a URL whose fetch succeeds with an HTML content type and
\* whose page text contains the keyword gambling as a standalone word ends in
\* red_flag with gambling among matched_keywords, with or without OCR.
C15_KeywordPageIsRedFlag ==
    (/\ HtmlSurveyed
     /\ "gambling" \in Range(keywords)
     /\ OccursStandalone("gambling", page.text))
        => /\ result.status = "red_flag"
           /\ "gambling" \in result.matched_keywords

\* C16: without the OCR capability, surveying an HTML page ends in red_flag
\* or ok, decided by the text and link channels alone: red_flag with the
\* keywords of the text and the links when there are any, ok otherwise, and
\* never error.
C16_NoOcrStillClassifies ==
    (HtmlSurveyed /\ ~ocr_installed)
        => /\ result.status \in {"red_flag", "ok"}
           /\ result.matched_keywords = TextAndLinkKeywords(page, keywords)
           /\ result.status = "red_flag"
                  <=> TextAndLinkKeywords(page, keywords) # {}

C18_NonHtmlIsSkipped ==
    (spc = "record" /\ page.fetch = "ok" /\ ~IsHtml(page.ctype))
        => /\ result.status = "skipped"
           /\ result.matched_keywords = {}
           /\ result.content_type = Lower(page.ctype)

\* C19: for every URL of the batch that has been dealt with, whatever its
\* status, the results log has a line for it.
C19_EveryUrlIsLogged ==
    \A i \in 1..survey_i :
        \E n \in 1..Len(survey_log) : survey_log[n].i = i

Domains == { "", "a.com", "b.com", "b.com " }
InitialFiles == { << >>, << "a.com" >> }
Whitespace == { " " }
BlocklistHeader == "# Red-flagged domains will be added here"

\* str.strip(): leading and trailing whitespace removed
RECURSIVE Strip(_)
Strip(s) ==
    IF s = "" THEN ""
    ELSE IF SubSeq(s, 1, 1) \in Whitespace
         THEN Strip(SubSeq(s, 2, Len(s)))
    ELSE IF SubSeq(s, Len(s), Len(s)) \in Whitespace
         THEN Strip(SubSeq(s, 1, Len(s) - 1))
    ELSE s

\* [line.strip() for line in f_read]; nothing when the read fails
CurrentBlocklist(file, read_ok) ==
    IF read_ok THEN { Strip(file[i]) : i \in 1..Len(file) } ELSE {}

FileAfterAdd_Rewrites(file, exists, domain, read_ok, write_ok) ==
    IF domain = "" THEN file
    ELSE IF domain \in CurrentBlocklist(file, exists /\ read_ok) THEN file
    ELSE IF write_ok THEN << domain >>
    ELSE file

\* the file after add_to_blocklist(domain)
FileAfterAdd(file, exists, domain, read_ok, write_ok) ==
    IF domain = "" THEN file
    ELSE IF domain \in CurrentBlocklist(file, exists /\ read_ok) THEN file
    ELSE IF write_ok THEN Append(file, domain)
    ELSE file

\* add_to_blocklist(domain) opens the file for reading when it has a domain
\* and the file exists
OpensForRead(exists, domain) == domain # "" /\ exists

\* the effect of one call of add_to_blocklist(domain) on the file, and its
\* record in add_calls
AppendDomain(domain, read_ok, write_ok) ==
    LET after == FileAfterAdd(blocklist_file, blocklist_exists, domain,
                              read_ok, write_ok)
    IN /\ blocklist_file' = after
       /\ blocklist_exists' = (blocklist_exists \/ after # blocklist_file)
       /\ add_calls' = Append(add_calls,
              [domain |-> domain,
               io_ok |-> read_ok /\ write_ok,
               read |-> OpensForRead(blocklist_exists, domain),
               before |-> blocklist_file,
               after |-> after])

InitBlock ==
    /\ DdosIdle
    /\ ScanIdle
    /\ SurveyIdle
    /\ SqliIdle
    /\ PaceIdle
    /\ BankIdle
    /\ MenuIdle
    /\ blocklist_file \in InitialFiles
    /\ blocklist_exists \in BOOLEAN
    /\ blocklist_file # << >> => blocklist_exists
    /\ add_calls = << >>
    /\ ppc = "idle"
    /\ batch_sites = << >>
    /\ to_add = {}
    /\ batch_from = 0
    /\ warnings = 0

\* the module's start: a missing blocklist file is created with its header
Bootstrap ==
    /\ ppc = "idle"
    /\ add_calls = << >>
    /\ ~blocklist_exists
    /\ blocklist_exists' = TRUE
    /\ blocklist_file' = << BlocklistHeader >>
    /\ UNCHANGED << ddosVars, scanVars, surveyVars, sqliVars, paceVars,
                    bankVars, menuVars, add_calls, ppc, batch_sites, to_add,
                    batch_from, warnings >>


\* one call of add_to_blocklist(domain); the read of the existing file and
\* the append each succeed or raise IOError
AddToBlocklist(domain, read_ok, write_ok) ==
    /\ ppc = "idle"
    /\ Len(add_calls) < MaxAdds
    /\ AppendDomain(domain, read_ok, write_ok)
    /\ UNCHANGED << ddosVars, scanVars, surveyVars, sqliVars, paceVars,
                    bankVars, menuVars, ppc, batch_sites, to_add, batch_from,
                    warnings >>


\* ------------------------------------------- process_survey_results
SiteUrls == { "http://a.com/x", "http://a.com", "http://b.com", "http://[b/",
              "a.com" }
FlaggedBatches == UNION { [1..n -> SiteUrls] : n \in 0..MaxSites }
NetlocEnd == { "/", "?", "#" }

\* where the network location of url begins: after '//' following the
\* scheme; 0 when the url has none
NetlocStart(url) ==
    IF StartsWith(url, "http://") THEN 8
    ELSE IF StartsWith(url, "https://") THEN 9
    ELSE IF StartsWith(url, "//") THEN 3
    ELSE 0

\* urlsplit: the network location runs to the first of '/', '?', '#'
Netloc(url) ==
    LET from == NetlocStart(url)
        stops == { i \in from..Len(url) : SubSeq(url, i, i) \in NetlocEnd }
        to == IF stops = {} THEN Len(url)
              ELSE (CHOOSE i \in stops : \A j \in stops : i <= j) - 1
    IN IF from = 0 THEN "" ELSE SubSeq(url, from, to)

\* urlsplit raises ValueError('Invalid IPv6 URL')
UrlparseRaises(url) ==
    Contains(Netloc(url), "[") # Contains(Netloc(url), "]")

\* get_domain_from_url; None is the empty string here, both are falsy
get_domain_from_url(url) ==
    IF url = "" THEN ""
    ELSE IF UrlparseRaises(url) THEN ""
    ELSE Netloc(url)

UniqueDomains_StopsAtFailure(sites) ==
    { get_domain_from_url(sites[i]) : i \in
        { j \in 1..Len(sites) :
            \A k \in 1..j : get_domain_from_url(sites[k]) # "" } }

\* unique_domains_to_block after the loop over the flagged sites
UniqueDomains(sites) ==
    { get_domain_from_url(sites[i]) : i \in 1..Len(sites) } \ { "" }

\* the sites skipped with the warning 'Could not extract domain'
Skipped(sites) ==
    { i \in 1..Len(sites) : get_domain_from_url(sites[i]) = "" }

\* process_survey_results(flagged_sites) up to the loop over the domains
ProcessStart(sites) ==
    /\ ppc = "idle"
    /\ batch_sites' = sites
    /\ batch_from' = Len(add_calls)
    /\ warnings' = Cardinality(Skipped(sites))
    /\ to_add' = UniqueDomains(sites)
    /\ ppc' = IF UniqueDomains(sites) = {} THEN "returned" ELSE "adding"
    /\ UNCHANGED << ddosVars, scanVars, surveyVars, sqliVars, paceVars,
                    bankVars, menuVars, blocklist_exists, blocklist_file,
                    add_calls >>


\* one iteration of `for domain in unique_domains_to_block`, in the order
\* the set gives, and the return after the last one
ProcessAdd(domain, read_ok, write_ok) ==
    /\ ppc = "adding"
    /\ domain \in to_add
    /\ AppendDomain(domain, read_ok, write_ok)
    /\ to_add' = to_add \ { domain }
    /\ ppc' = IF to_add' = {} THEN "returned" ELSE "adding"
    /\ UNCHANGED << ddosVars, scanVars, surveyVars, sqliVars, paceVars,
                    bankVars, menuVars, batch_sites, batch_from, warnings >>


\* calls of add_to_blocklist from a fresh process
NextBlock ==
    \/ Bootstrap
    \/ \E domain \in Domains, read_ok \in BOOLEAN, write_ok \in BOOLEAN :
        AddToBlocklist(domain, read_ok, write_ok)

SpecBlock == InitBlock /\ [][NextBlock]_vars

\* one call of process_survey_results on a blocklist file left by earlier
\* runs
NextProcess ==
    \/ \E sites \in FlaggedBatches : ProcessStart(sites)
    \/ \E domain \in to_add, read_ok \in BOOLEAN, write_ok \in BOOLEAN :
        ProcessAdd(domain, read_ok, write_ok)

SpecProcess == InitBlock /\ [][NextProcess]_vars

\* ---------------------------------------------------------------- claims
LinesFor(file, domain) == { i \in 1..Len(file) : file[i] = domain }

\* C20: after two calls of add_to_blocklist in a row with the same non-empty
\* domain, both without I/O failure, the file has exactly one line for the
\* domain and the second call has left the file as it was.
C20_AddIsIdempotent ==
    \A n \in 1..(Len(add_calls) - 1) :
        LET first == add_calls[n]
            second == add_calls[n + 1]
        IN (/\ first.domain # ""
            /\ second.domain = first.domain
            /\ first.io_ok
            /\ second.io_ok)
               => /\ Cardinality(LinesFor(second.after, first.domain)) = 1
                  /\ second.after = second.before

\* C21: whatever the calls made and whatever the outcome of each read and
\* write, no two lines of the blocklist file hold the same domain.
C21_NoDuplicateLines ==
    \A i, j \in 1..Len(blocklist_file) :
        i # j => blocklist_file[i] # blocklist_file[j]

\* C22: every step leaves the blocklist file as it was or appends one line
\* at its end; a call of add_to_blocklist that appends a line appends its
\* domain, and a call with the empty domain appends nothing.
C22_AppendOnly ==
    [][/\ \/ blocklist_file' = blocklist_file
          \/ /\ Len(blocklist_file') = Len(blocklist_file) + 1
             /\ SubSeq(blocklist_file', 1, Len(blocklist_file))
                    = blocklist_file
       /\ add_calls' # add_calls =>
             LET call == add_calls'[Len(add_calls')]
             IN /\ call.domain = "" => blocklist_file' = blocklist_file
                /\ blocklist_file' # blocklist_file =>
                       blocklist_file' = Append(blocklist_file, call.domain)
      ]_vars

\* a call has appended a domain to a file that had a line already, and a
\* call with the empty domain has been made
C22_Witness ==
    /\ \E n \in 1..Len(add_calls) :
          /\ add_calls[n].before # << >>
          /\ add_calls[n].after # add_calls[n].before
    /\ \E n \in 1..Len(add_calls) : add_calls[n].domain = ""

\* the calls of add_to_blocklist made by the batch
BatchCalls == (batch_from + 1)..Len(add_calls)

\* C23: a batch of process_survey_results that finds the blocklist file in
\* place and has at least one domain to add opens the file for reading
\* once, whatever the number of domains.
C23_OneReadPerBatch ==
    (/\ ppc = "returned"
     /\ BatchCalls # {}
     /\ add_calls[batch_from + 1].read)
        => Cardinality({ n \in BatchCalls : add_calls[n].read }) = 1

\* a line of the file holds the domain, as written or as read back
InBlocklist(file, domain) ==
    \E i \in 1..Len(file) : file[i] = domain \/ Strip(file[i]) = domain

\* C24: when process_survey_results returns, every site without an
\* extractable domain has been skipped with a warning, the domain of every
\* other site has been passed to add_to_blocklist exactly once and nothing
\* else has, and, when no read or write failed, each of these domains is in
\* the blocklist file.
C24_BatchSkipsBadSites ==
    ppc = "returned" =>
        /\ warnings = Cardinality({ i \in 1..Len(batch_sites) :
                          get_domain_from_url(batch_sites[i]) = "" })
        /\ \A i \in 1..Len(batch_sites) :
              LET d == get_domain_from_url(batch_sites[i])
              IN d # "" =>
                   /\ Cardinality({ n \in BatchCalls :
                          add_calls[n].domain = d }) = 1
                   /\ (\A n \in BatchCalls : add_calls[n].io_ok)
                          => InBlocklist(blocklist_file, d)
        /\ \A n \in BatchCalls :
              \E i \in 1..Len(batch_sites) :
                  get_domain_from_url(batch_sites[i]) = add_calls[n].domain

\* a batch that skipped a site whose domain could not be extracted and had
\* a site whose domain was appended to the file
C24_Witness ==
    /\ ppc = "returned"
    /\ warnings >= 1
    /\ \E n \in BatchCalls :
          /\ add_calls[n].after = Append(add_calls[n].before,
                                         add_calls[n].domain)
          /\ InBlocklist(blocklist_file, add_calls[n].domain)

\* ===================================================== simulate_sqli
TargetUrls == { "http://localhost/s", "http://localhost/s?id=1&q=x",
                "http://localhost/s?q=", "http://localhost/s?q=a=b" }
PayloadPool == { "' OR 1=1 --", "admin' --" }
PayloadLists == UNION { [1..n -> PayloadPool] : n \in 0..NumPayloads }
SqliOutcomes == { "response", "request_exception", "exception" }
DEFAULT_PARAM == "query"

\* str.find(c) + 1: the place of the first c in s, 0 when there is none
IndexOf(s, c) ==
    LET at == { i \in 1..Len(s) : SubSeq(s, i, i) = c }
    IN IF at = {} THEN 0 ELSE CHOOSE i \in at : \A j \in at : i <= j

\* s.split(c)
RECURSIVE Split(_, _)
Split(s, c) ==
    LET i == IndexOf(s, c)
    IN IF i = 0 THEN << s >>
       ELSE << SubSeq(s, 1, i - 1) >> \o Split(SubSeq(s, i + 1, Len(s)), c)

\* urlparse(target_url).query
QueryOf(t) ==
    LET i == IndexOf(t, "?")
    IN IF i = 0 THEN "" ELSE SubSeq(t, i + 1, Len(t))

\* parsed_target_url._replace(query="").geturl()
WithoutQuery(t) ==
    LET i == IndexOf(t, "?")
    IN IF i = 0 THEN t ELSE SubSeq(t, 1, i - 1)

\* qc.split("=") for the qc of query.split("&") that hold an "="
QueryPairs(t) ==
    LET parts == Split(QueryOf(t), "&")
        with == SelectSeq(parts, LAMBDA qc : IndexOf(qc, "=") # 0)
    IN [n \in 1..Len(with) |-> Split(with[n], "=")]

\* dict(...) raises ValueError for an element that is not a pair
DictRaises(t) == \E n \in 1..Len(QueryPairs(t)) : Len(QueryPairs(t)[n]) # 2

\* param_name and base_url as lines 511-524 leave them
ParamName(t) ==
    IF QueryPairs(t) = << >> THEN DEFAULT_PARAM ELSE QueryPairs(t)[1][1]

BaseUrl(t) == IF QueryPairs(t) = << >> THEN t ELSE WithoutQuery(t)

\* the line log_message appends for an attempt
AttemptRecord(outcome, payload) ==
    [kind |-> CASE outcome = "response" -> "SQLi_PAYLOAD"
                [] outcome = "request_exception" -> "SQLi_PAYLOAD_ERROR"
                [] OTHER -> "SQLi_PAYLOAD_UNEXPECTED_ERROR",
     payload |-> payload]

InitSqli ==
    /\ DdosIdle
    /\ ScanIdle
    /\ SurveyIdle
    /\ BlockIdle
    /\ PaceIdle
    /\ BankIdle
    /\ MenuIdle
    /\ target_url \in TargetUrls
    /\ payloads \in PayloadLists
    /\ sq_pc = "start"
    /\ param_name = ""
    /\ base_url = ""
    /\ payload_i = 0
    /\ in_flight = 0
    /\ requests_sent = << >>
    /\ attack_log = << >>

\* the SQLi_SIM_START line
SqliLogStart ==
    /\ sq_pc = "start"
    /\ attack_log' = Append(attack_log, [kind |-> "SQLi_SIM_START",
                                         payload |-> ""])
    /\ sq_pc' = "parse"
    /\ UNCHANGED << ddosVars, scanVars, surveyVars, target_url, payloads,
                    param_name, base_url, payload_i, in_flight, requests_sent,
                    paceVars, bankVars, menuVars, blockVars >>


\* the choice of the parameter name and of the base url
SqliParseTarget ==
    /\ sq_pc = "parse"
    /\ IF DictRaises(target_url)
       THEN /\ sq_pc' = "raised"
            /\ UNCHANGED << param_name, base_url >>
       ELSE /\ param_name' = ParamName(target_url)
            /\ base_url' = BaseUrl(target_url)
            /\ sq_pc' = "loop"
    /\ UNCHANGED << ddosVars, scanVars, surveyVars, target_url, payloads,
                    payload_i, in_flight, requests_sent, attack_log, paceVars,
                    bankVars, menuVars, blockVars >>


\* session.get(base_url, params={param_name: payload}, timeout=10) is called
SqliGet ==
    /\ sq_pc = "loop"
    /\ payload_i < Len(payloads)
    /\ requests_sent' = Append(requests_sent,
           [url |-> base_url, name |-> param_name,
            payload |-> payloads[payload_i + 1]])
    /\ in_flight' = in_flight + 1
    /\ sq_pc' = "get"
    /\ UNCHANGED << ddosVars, scanVars, surveyVars, target_url, payloads,
                    param_name, base_url, payload_i, attack_log, paceVars,
                    bankVars, menuVars, blockVars >>


SqliRecord_Unhandled(outcome) ==
    /\ sq_pc = "get"
    /\ in_flight' = in_flight - 1
    /\ IF outcome = "exception"
       THEN /\ sq_pc' = "raised"
            /\ UNCHANGED << attack_log, payload_i >>
       ELSE /\ attack_log' = Append(attack_log,
                AttemptRecord(outcome, payloads[payload_i + 1]))
            /\ payload_i' = payload_i + 1
            /\ sq_pc' = "loop"
    /\ UNCHANGED << ddosVars, scanVars, surveyVars, target_url, payloads,
                    param_name, base_url, requests_sent, paceVars, bankVars,
                    menuVars, blockVars >>


\* session.get returns or raises; the attempt is logged, then time.sleep(0.5)
SqliRecord(outcome) ==
    /\ sq_pc = "get"
    /\ in_flight' = in_flight - 1
    /\ attack_log' = Append(attack_log,
           AttemptRecord(outcome, payloads[payload_i + 1]))
    /\ payload_i' = payload_i + 1
    /\ sq_pc' = "loop"
    /\ UNCHANGED << ddosVars, scanVars, surveyVars, target_url, payloads,
                    param_name, base_url, requests_sent, paceVars, bankVars,
                    menuVars, blockVars >>


\* the loop is over: the SQLi_SIM_END line
SqliFinish ==
    /\ sq_pc = "loop"
    /\ payload_i = Len(payloads)
    /\ attack_log' = Append(attack_log, [kind |-> "SQLi_SIM_END",
                                         payload |-> ""])
    /\ sq_pc' = "done"
    /\ UNCHANGED << ddosVars, scanVars, surveyVars, target_url, payloads,
                    param_name, base_url, payload_i, in_flight, requests_sent,
                    paceVars, bankVars, menuVars, blockVars >>


NextSqli ==
    \/ SqliLogStart
    \/ SqliParseTarget
    \/ SqliGet
    \/ \E outcome \in SqliOutcomes : SqliRecord(outcome)
    \/ SqliFinish

SpecSqli == InitSqli /\ [][NextSqli]_vars

\* the loop goes on, and every call of session.get returns or raises within
\* its timeout
SqliLoopSteps ==
    \/ SqliGet
    \/ \E outcome \in SqliOutcomes : SqliRecord(outcome)
    \/ SqliFinish

SpecSqliFair == SpecSqli /\ WF_vars(SqliLoopSteps)

\* ---------------------------------------------------------------- claims
AttemptKinds == { "SQLi_PAYLOAD", "SQLi_PAYLOAD_ERROR",
                  "SQLi_PAYLOAD_UNEXPECTED_ERROR" }

\* the attempts recorded so far are those of the first payloads, in order
AttemptsInOrder ==
    \A n \in 1..payload_i :
        /\ n + 1 <= Len(attack_log)
        /\ attack_log[n + 1].kind \in AttemptKinds
        /\ attack_log[n + 1].payload = payloads[n]

\* C25: simulate_sqli has at most one request in flight, sends the payloads
\* in list order, and when the call is over its log is one SQLi_SIM_START
\* line, one attempt line per payload in the order of the list, and one
\* SQLi_SIM_END line.
C25_OneAttemptPerPayloadInOrder ==
    /\ in_flight <= 1
    /\ \A n \in 1..Len(requests_sent) : requests_sent[n].payload = payloads[n]
    /\ AttemptsInOrder
    /\ sq_pc \in {"done", "raised"} =>
          /\ payload_i = Len(payloads)
          /\ Len(attack_log) = Len(payloads) + 2
          /\ attack_log[1].kind = "SQLi_SIM_START"
          /\ attack_log[Len(attack_log)].kind = "SQLi_SIM_END"

ErrorRecorded ==
    \E n \in 1..Len(attack_log) :
        attack_log[n].kind \in { "SQLi_PAYLOAD_ERROR",
                                 "SQLi_PAYLOAD_UNEXPECTED_ERROR" }

\* C26: an outcome of session.get other than a response is recorded for its
\* payload, and once an error has been recorded the probe still sends and
\* records every payload of the list and writes its SQLi_SIM_END line.
C26_ErrorDoesNotAbortProbe ==
    /\ []AttemptsInOrder
    /\ ErrorRecorded ~>
          (/\ sq_pc = "done"
           /\ Len(requests_sent) = Len(payloads)
           /\ payload_i = Len(payloads)
           /\ attack_log[Len(attack_log)].kind = "SQLi_SIM_END")

\* the first payload met a transport error, the second another exception,
\* and the probe has ended
C26_Witness ==
    /\ sq_pc = "done"
    /\ Len(payloads) = 2
    /\ attack_log[2].kind = "SQLi_PAYLOAD_ERROR"
    /\ attack_log[3].kind = "SQLi_PAYLOAD_UNEXPECTED_ERROR"

\* the name of the first parameter of the query string of t
FirstParameter(t) == Split(Split(QueryOf(t), "&")[1], "=")[1]

\* C27: once the parameter name has been chosen, it is the name of the
\* first parameter of the query string and the base url is the url without
\* the query string, or, for a url without query string, the name is 'query'
\* and the base url the url itself; and simulate_sqli goes on to the loop
\* over the payloads.
C27_ParameterNameChosen ==
    sq_pc \notin {"start", "parse"} =>
        /\ sq_pc # "raised"
        /\ param_name = IF QueryOf(target_url) = "" THEN DEFAULT_PARAM
                        ELSE FirstParameter(target_url)
        /\ base_url = WithoutQuery(target_url)

\* ============================================ the pacing of ddos_worker
PacingRates == 0..MaxRate
ElapsedMillis == { 100 * k : k \in 0..MaxElapsed }

WorkerSleep_NoClamp(rate, elapsed_ms) ==
    IF rate > 0 THEN SleepDuration(rate, elapsed_ms) ELSE 0

\* the time ddos_worker sleeps at the end of a pass, in milliseconds
WorkerSleep(rate, elapsed_ms) ==
    IF rate > 0
    THEN IF SleepDuration(rate, elapsed_ms) > 0
         THEN SleepDuration(rate, elapsed_ms)
         ELSE 0
    ELSE 0

InitPace ==
    /\ DdosIdle
    /\ ScanIdle
    /\ SurveyIdle
    /\ BlockIdle
    /\ SqliIdle
    /\ BankIdle
    /\ MenuIdle
    /\ w_rate \in PacingRates
    /\ w_elapsed_ms \in ElapsedMillis
    /\ w_slept_ms = 0
    /\ pace_pc = "request_done"

\* the end of a pass of the loop: the test of rate and the sleep
Pace ==
    /\ pace_pc = "request_done"
    /\ w_slept_ms' = WorkerSleep(w_rate, w_elapsed_ms)
    /\ pace_pc' = "slept"
    /\ UNCHANGED << ddosVars, scanVars, surveyVars, sqliVars, w_rate,
                    w_elapsed_ms, bankVars, menuVars, blockVars >>


NextPace == Pace

SpecPace == InitPace /\ [][NextPace]_vars

\* ---------------------------------------------------------------- claims
Max(a, b) == IF a >= b THEN a ELSE b

\* C28: at the end of a pass the worker has slept max(0, 1/r - elapsed) for
\* a rate r > 0 and not at all for r = 0, and the time slept is never
\* negative.
C28_SleepIsClampedPeriod ==
    pace_pc = "slept" =>
        /\ w_rate > 0 =>
              w_slept_ms = Max(0, (1000 \div w_rate) - w_elapsed_ms)
        /\ w_rate = 0 => w_slept_ms = 0
        /\ w_slept_ms >= 0

\* a pass that took longer than the period of its rate: no sleep
C28_Witness ==
    /\ pace_pc = "slept"
    /\ w_rate > 0
    /\ w_elapsed_ms > 1000 \div w_rate
    /\ w_slept_ms = 0

\* ================================== account_manager.py, transactions.py
UserIds == { "u1", "u2", "u3" }
Pins == { "1234" }
\* the account_manager given to send_money: an AccountManager, or the one of
\* test_send_money_refund_scenario whose deposit to the receiver returns False
Managers == { "AccountManager", "failing_deposit" }
None == -1

\* amounts and balances are floats (amount: float; main() passes
\* float(input(...))): the result of + and - is rounded to the nearest
\* number with MANT_DIG significant bits, ties to the even one; a result of
\* 2 ^ MAX_EXP or more is inf, inf - inf is nan, and every comparison with
\* nan is false
Inf == 2 ^ MAX_EXP
NaN == Inf + 1
Amounts == { -1, 0, 1, MaxAmount, Inf, NaN }

Gt(a, b) == a # NaN /\ b # NaN /\ a > b
Ge(a, b) == a # NaN /\ b # NaN /\ a >= b
Le(a, b) == a # NaN /\ b # NaN /\ a <= b

RECURSIVE Ulp(_)
Ulp(x) == IF x < 2 ^ MANT_DIG THEN 1 ELSE 2 * Ulp(x \div 2)

Round(x) ==
    LET u == Ulp(x)
        lo == (x \div u) * u
        rest == x - lo
    IN IF 2 * rest < u THEN lo
       ELSE IF 2 * rest > u THEN lo + u
       ELSE IF (lo \div u) % 2 = 0 THEN lo
       ELSE lo + u

IsFloat(x) == Round(x) = x
Overflow(x) == IF x >= Inf THEN Inf ELSE x

FloatAdd(a, b) ==
    IF a = NaN \/ b = NaN THEN NaN
    ELSE IF a = Inf \/ b = Inf THEN Inf
    ELSE Overflow(Round(a + b))

FloatSub(a, b) ==
    IF a = NaN \/ b = NaN THEN NaN
    ELSE IF a = Inf /\ b = Inf THEN NaN
    ELSE IF a = Inf THEN Inf
    ELSE IF b = Inf THEN -Inf
    ELSE Round(a - b)

\* the money in the bank: the exact sum of the balances
RECURSIVE SumBalances(_, _)
SumBalances(acc, ids) ==
    IF ids = {} THEN 0
    ELSE LET u == CHOOSE v \in ids : TRUE
         IN acc[u].balance + SumBalances(acc, ids \ { u })

Total(acc) == SumBalances(acc, DOMAIN acc)

Returned(r, acc) == [ret |-> r, accounts |-> acc]

\* AccountManager.create_account
create_account(acc, user_id, pin) ==
    IF user_id \in DOMAIN acc THEN Returned(FALSE, acc)
    ELSE Returned(TRUE,
            [u \in DOMAIN acc \cup { user_id } |->
                IF u = user_id THEN [pin |-> pin, balance |-> 0]
                ELSE acc[u]])

\* AccountManager.get_balance
get_balance(acc, user_id) ==
    IF user_id \in DOMAIN acc THEN acc[user_id].balance ELSE None

\* deposit with the balance tested in place of the amount
deposit_TestsBalance(acc, user_id, amount) ==
    IF user_id \in DOMAIN acc /\ Gt(acc[user_id].balance, 0)
    THEN Returned(TRUE,
            [acc EXCEPT ![user_id].balance = FloatAdd(@, amount)])
    ELSE Returned(FALSE, acc)

\* AccountManager.deposit
deposit(acc, user_id, amount) ==
    IF user_id \in DOMAIN acc /\ Gt(amount, 0)
    THEN Returned(TRUE,
            [acc EXCEPT ![user_id].balance = FloatAdd(@, amount)])
    ELSE Returned(FALSE, acc)

\* AccountManager.withdraw
withdraw(acc, user_id, amount) ==
    IF user_id \in DOMAIN acc /\ Gt(amount, 0)
    THEN IF Ge(acc[user_id].balance, amount)
         THEN Returned(TRUE,
                 [acc EXCEPT ![user_id].balance = FloatSub(@, amount)])
         ELSE Returned(FALSE, acc)
    ELSE Returned(FALSE, acc)

\* account_manager.deposit(receiver_id, amount) inside send_money
DepositToReceiver(acc, receiver_id, amount, manager) ==
    IF manager = "failing_deposit" THEN Returned(FALSE, acc)
    ELSE deposit(acc, receiver_id, amount)

\* transactions.send_money
send_money(acc, sender_id, receiver_id, amount, manager) ==
    IF Le(amount, 0) THEN Returned(FALSE, acc)
    ELSE IF sender_id = receiver_id THEN Returned(FALSE, acc)
    ELSE IF get_balance(acc, receiver_id) = None THEN Returned(FALSE, acc)
    ELSE LET w == withdraw(acc, sender_id, amount)
             d == DepositToReceiver(w.accounts, receiver_id, amount, manager)
         IN IF w.ret
            THEN IF d.ret THEN Returned(TRUE, d.accounts)
                 ELSE Returned(FALSE,
                         deposit(d.accounts, sender_id, amount).accounts)
            ELSE Returned(FALSE, acc)

\* the return statement send_money leaves by
SendMoneyBranch(acc, sender_id, receiver_id, amount, manager) ==
    IF Le(amount, 0) THEN "amount_not_positive"
    ELSE IF sender_id = receiver_id THEN "same_account"
    ELSE IF get_balance(acc, receiver_id) = None THEN "no_receiver"
    ELSE LET w == withdraw(acc, sender_id, amount)
             d == DepositToReceiver(w.accounts, receiver_id, amount, manager)
         IN IF w.ret
            THEN IF d.ret THEN "transferred" ELSE "refunded"
            ELSE "withdraw_failed"

\* transactions.handle_withdrawal
handle_withdrawal(acc, user_id, amount) ==
    IF Le(amount, 0) THEN Returned(FALSE, acc)
    ELSE withdraw(acc, user_id, amount)

\* the accounts some calls of create_account and deposit have left
Balances == { x \in 0..MaxMoney : IsFloat(x) } \cup { Inf }
BankStates ==
    UNION { [ids -> [pin : Pins, balance : Balances]] : ids \in SUBSET UserIds }

InitBank ==
    /\ DdosIdle
    /\ ScanIdle
    /\ SurveyIdle
    /\ BlockIdle
    /\ SqliIdle
    /\ PaceIdle
    /\ MenuIdle
    /\ accounts \in BankStates
    /\ last_call = NoCall
    /\ before = NoAccounts

\* the call is made on the bank and its result kept
Made(op, user, other, amount, manager, r) ==
    /\ accounts' = r.accounts
    /\ before' = accounts
    /\ last_call' = [op |-> op, user |-> user, other |-> other,
                     amount |-> amount, manager |-> manager, ret |-> r.ret]

CallCreateAccount(user_id, pin) ==
    Made("create_account", user_id, "", 0, "AccountManager",
         create_account(accounts, user_id, pin))
    /\ UNCHANGED << ddosVars, scanVars, surveyVars, sqliVars, paceVars,
                    menuVars, blockVars >>


CallDeposit(user_id, amount) ==
    /\ Made("deposit", user_id, "", amount, "AccountManager",
            deposit(accounts, user_id, amount))
    /\ UNCHANGED << ddosVars, scanVars, surveyVars, sqliVars, paceVars,
                    menuVars, blockVars >>


CallWithdraw(user_id, amount) ==
    Made("withdraw", user_id, "", amount, "AccountManager",
         withdraw(accounts, user_id, amount))
    /\ UNCHANGED << ddosVars, scanVars, surveyVars, sqliVars, paceVars,
                    menuVars, blockVars >>


CallSendMoney(sender_id, receiver_id, amount, manager) ==
    Made("send_money", sender_id, receiver_id, amount, manager,
         send_money(accounts, sender_id, receiver_id, amount, manager))
    /\ UNCHANGED << ddosVars, scanVars, surveyVars, sqliVars, paceVars,
                    menuVars, blockVars >>


CallHandleWithdrawal(user_id, amount) ==
    Made("handle_withdrawal", user_id, "", amount, "AccountManager",
         handle_withdrawal(accounts, user_id, amount))
    /\ UNCHANGED << ddosVars, scanVars, surveyVars, sqliVars, paceVars,
                    menuVars, blockVars >>


\* one call on the bank
NextBank ==
    /\ last_call = NoCall
    /\ \/ \E u \in UserIds, p \in Pins : CallCreateAccount(u, p)
       \/ \E u \in UserIds, a \in Amounts : CallDeposit(u, a)
       \/ \E u \in UserIds, a \in Amounts : CallWithdraw(u, a)
       \/ \E s \in UserIds, r \in UserIds, a \in Amounts, m \in Managers :
             CallSendMoney(s, r, a, m)
       \/ \E u \in UserIds, a \in Amounts : CallHandleWithdrawal(u, a)

SpecBank == InitBank /\ [][NextBank]_vars

\* ---------------------------------------------------------------- claims
SendMoneyReturned == last_call.op = "send_money"

\* C29: after a call of send_money, with an AccountManager or with one whose
\* deposit to the receiver fails, the balances add up to what they added up
\* to before the call; and when the call returned False every account is as
\* it was before the call.
C29_SendMoneyConservesMoney ==
    SendMoneyReturned =>
        /\ Total(accounts) = Total(before)
        /\ ~last_call.ret => accounts = before

\* what send_money is to accept
Transferable(acc, sender_id, receiver_id, amount) ==
    /\ amount > 0
    /\ sender_id # receiver_id
    /\ sender_id \in DOMAIN acc
    /\ receiver_id \in DOMAIN acc
    /\ acc[sender_id].balance >= amount

\* C30: a call of send_money on an AccountManager returns True exactly when
\* the amount is positive, sender and receiver are two existing accounts and
\* the sender's balance is at least the amount; the sender's balance is then
\* lower by the amount, the receiver's higher by the amount, and every other
\* account as before.
C30_SendMoneyTransfers ==
    (SendMoneyReturned /\ last_call.manager = "AccountManager") =>
        /\ last_call.ret <=> Transferable(before, last_call.user,
                                          last_call.other, last_call.amount)
        /\ last_call.ret =>
              /\ DOMAIN accounts = DOMAIN before
              /\ accounts[last_call.user].balance
                     = before[last_call.user].balance - last_call.amount
              /\ accounts[last_call.other].balance
                     = before[last_call.other].balance + last_call.amount
              /\ \A u \in DOMAIN before \ { last_call.user, last_call.other } :
                     accounts[u] = before[u]

\* ------------------------------------------------------------------- C31
BalanceCall == last_call.op \in { "deposit", "withdraw", "handle_withdrawal" }

\* what deposit, withdraw and handle_withdrawal are to refuse
Refused(acc, op, user_id, amount) ==
    \/ user_id \notin DOMAIN acc
    \/ amount <= 0
    \/ /\ op \in { "withdraw", "handle_withdrawal" }
       /\ acc[user_id].balance < amount

\* C31: deposit, withdraw and handle_withdrawal return False and leave every
\* account and the set of accounts as they were when the user id does not
\* exist, when the amount is zero or negative, or (withdrawals) when the
\* balance is less than the amount; otherwise they return True and change
\* only the named account's balance, by exactly the amount.
C31_DepositWithdrawExact ==
    BalanceCall =>
        LET u == last_call.user
            a == last_call.amount
        IN IF Refused(before, last_call.op, u, a)
           THEN ~last_call.ret /\ accounts = before
           ELSE /\ last_call.ret
                /\ DOMAIN accounts = DOMAIN before
                /\ \A v \in DOMAIN before \ { u } : accounts[v] = before[v]
                /\ accounts[u].pin = before[u].pin
                /\ accounts[u].balance =
                       IF last_call.op = "deposit"
                       THEN before[u].balance + a
                       ELSE before[u].balance - a

\* ------------------------------------------------------------------- C35
WithdrawalSucceeded ==
    /\ SendMoneyReturned
    /\ last_call.manager = "AccountManager"
    /\ SendMoneyBranch(before, last_call.user, last_call.other,
                       last_call.amount, last_call.manager)
           \in { "transferred", "refunded" }

\* C35: with an AccountManager as the account_manager, whenever the
\* withdrawal from the sender inside send_money succeeded, the deposit to
\* the receiver succeeded too: send_money did not leave by its refund branch
\* and returned True.
C35_RefundUnreachable ==
    WithdrawalSucceeded =>
        /\ SendMoneyBranch(before, last_call.user, last_call.other,
                           last_call.amount, last_call.manager) = "transferred"
        /\ last_call.ret

C35_Witness ==
    /\ WithdrawalSucceeded
    /\ last_call.ret
    /\ before[last_call.other].balance = 0
    /\ accounts[last_call.other].balance > 0

\* the refund branch is taken with the manager whose deposit fails
C35_RefundTaken ==
    /\ SendMoneyReturned
    /\ last_call.manager = "failing_deposit"
    /\ SendMoneyBranch(before, last_call.user, last_call.other,
                       last_call.amount, last_call.manager) = "refunded"

\* ------------------------------------------------------------------- C36
\* any sequence of calls on an AccountManager that starts empty
RunUsers == { "u1", "u2" }
RunPins == { "1234", "0000" }
RunAmounts == { -1, MaxAmount, Inf, NaN }

InitBankRuns ==
    /\ DdosIdle
    /\ ScanIdle
    /\ SurveyIdle
    /\ BlockIdle
    /\ SqliIdle
    /\ PaceIdle
    /\ MenuIdle
    /\ accounts = NoAccounts
    /\ last_call = NoCall
    /\ before = NoAccounts

NextBankRuns ==
    \/ \E u \in RunUsers, p \in RunPins : CallCreateAccount(u, p)
    \/ \E u \in RunUsers, a \in RunAmounts : CallDeposit(u, a)
    \/ \E u \in RunUsers, a \in RunAmounts : CallWithdraw(u, a)
    \/ \E s \in RunUsers, r \in RunUsers, a \in RunAmounts :
          CallSendMoney(s, r, a, "AccountManager")
    \/ \E u \in RunUsers, a \in RunAmounts : CallHandleWithdrawal(u, a)

SpecBankRuns == InitBankRuns /\ [][NextBankRuns]_vars

\* the accounts of before are all there, with their pins
AccountsKept ==
    \A u \in DOMAIN before :
        u \in DOMAIN accounts /\ accounts[u].pin = before[u].pin

\* C36: after any sequence of create_account, deposit, withdraw, send_money
\* and handle_withdrawal calls on an AccountManager that started empty, every
\* balance is greater than or equal to 0, no call has removed an account or
\* changed its pin, and a create_account with an existing id has returned
\* False and left every account as it was.
C36_BalancesNonNegativeAccountsKept ==
    /\ \A u \in DOMAIN accounts : Ge(accounts[u].balance, 0)
    /\ AccountsKept
    /\ (last_call.op = "create_account" /\ last_call.user \in DOMAIN before)
          => ~last_call.ret /\ accounts = before

\* the same with a balance of nan let through
C36_ExceptNaN ==
    /\ \A u \in DOMAIN accounts :
          accounts[u].balance = NaN \/ Ge(accounts[u].balance, 0)
    /\ AccountsKept
    /\ (last_call.op = "create_account" /\ last_call.user \in DOMAIN before)
          => ~last_call.ret /\ accounts = before

\* ================================================================ main.py
\* what the operator types
MenuUsers == { "u1", "u2" }
MenuPins == { "1234", "0000" }
Choices == { "1", "2", "3", "4", "5", "6", "7", "8", "" }
AmountTexts == { "4", "-1", "inf", "abc" }

\* AccountManager.authenticate_user
authenticate_user(acc, user_id, pin) ==
    IF user_id \in DOMAIN acc
    THEN acc[user_id].pin = pin
    ELSE FALSE

\* float(text) for a text without blanks, point or exponent: an optional
\* sign and then inf, infinity, nan in any case or decimal digits; anything
\* else raises ValueError
ValueError == [raised |-> TRUE, value |-> 0]

RECURSIVE Decimal(_, _)
Decimal(s, n) ==
    IF s = "" THEN n
    ELSE Decimal(SubSeq(s, 2, Len(s)),
                 10 * n + IndexOf("0123456789", SubSeq(s, 1, 1)) - 1)

float(text) ==
    LET signed == Len(text) > 0 /\ SubSeq(text, 1, 1) \in { "-", "+" }
        negative == signed /\ SubSeq(text, 1, 1) = "-"
        body == IF signed THEN SubSeq(text, 2, Len(text)) ELSE text
        digits == /\ Len(body) > 0
                  /\ \A i \in 1..Len(body) :
                        IndexOf("0123456789", SubSeq(body, i, i)) > 0
        magnitude == IF Lower(body) \in { "inf", "infinity" } THEN Inf
                     ELSE Overflow(Round(Decimal(body, 0)))
    IN IF Lower(body) = "nan" THEN [raised |-> FALSE, value |-> NaN]
       ELSE IF Lower(body) \in { "inf", "infinity" } \/ digits
       THEN [raised |-> FALSE,
             value |-> IF negative THEN -magnitude ELSE magnitude]
       ELSE ValueError

\* mutant: the choice is dispatched without a look at logged_in_user_id
Branch_IgnoresLogin(user, choice) ==
    CASE choice = "1" -> "create_account"
      [] choice = "2" -> "login"
      [] choice = "3" -> "check_balance"
      [] choice = "4" -> "send_money"
      [] choice = "6" -> "withdraw"
      [] choice = "7" -> "logout"
      [] choice = "5" -> "exit"
      [] OTHER -> "none"

\* the branch of the loop body taken for a choice: if logged_in_user_id is
\* None: ... elif logged_in_user_id is not None: ... else: ...; "none" when
\* no if or elif of the inner chain matches the choice
Branch(user, choice) ==
    IF user = LoggedOut
    THEN CASE choice = "1" -> "create_account"
           [] choice = "2" -> "login"
           [] choice = "5" -> "exit"
           [] OTHER -> "none"
    ELSE IF user # LoggedOut
    THEN CASE choice = "3" -> "check_balance"
           [] choice = "4" -> "send_money"
           [] choice = "6" -> "withdraw"
           [] choice = "7" -> "logout"
           [] choice = "5" -> "exit"
           [] OTHER -> "none"
    ELSE "final_else"

\* what the final else branch prints
FinalElse(user, choice) ==
    IF choice \notin { "1", "2", "3", "4", "5", "6", "7" }
    THEN "Invalid option. Please try again."
    ELSE IF user = LoggedOut /\ choice \in { "3", "4", "6", "7" }
    THEN "You need to be logged in to perform this action."
    ELSE IF user # LoggedOut /\ choice \in { "1", "2" }
    THEN "You are already logged in."
    ELSE ""

InitMenu ==
    /\ DdosIdle
    /\ ScanIdle
    /\ SurveyIdle
    /\ BlockIdle
    /\ SqliIdle
    /\ PaceIdle
    /\ BankIdle
    /\ logged_in_user_id = LoggedOut
    /\ menu_pc = "menu"
    /\ last_menu = NoChoice

\* choice = input(...) gave a choice of the branch
Chosen(choice, branch) ==
    /\ menu_pc = "menu"
    /\ Branch(logged_in_user_id, choice) = branch

\* what main() printed for the choice
Shown(choice, message) ==
    last_menu' = [choice |-> choice, user |-> logged_in_user_id,
                  message |-> message]

\* the choice led to no call on the bank
NoBankCall ==
    /\ accounts' = accounts
    /\ before' = accounts
    /\ last_call' = NoCall

MenuCreateAccount(user_id, pin) ==
    /\ \E choice \in Choices :
         /\ Chosen(choice, "create_account")
         /\ LET r == create_account(accounts, user_id, pin)
            IN /\ Made("create_account", user_id, "", 0, "AccountManager", r)
               /\ Shown(choice, IF r.ret THEN "Account created successfully."
                                ELSE "Failed to create account.")
    /\ UNCHANGED << ddosVars, scanVars, surveyVars, sqliVars, paceVars,
                    logged_in_user_id, menu_pc, blockVars >>


MenuLogin(user_id, pin) ==
    /\ \E choice \in Choices :
         /\ Chosen(choice, "login")
         /\ LET ok == authenticate_user(accounts, user_id, pin)
            IN /\ Made("authenticate_user", user_id, "", 0, "AccountManager",
                       Returned(ok, accounts))
               /\ logged_in_user_id' = IF ok THEN user_id
                                       ELSE logged_in_user_id
               /\ Shown(choice, IF ok THEN "Login successful."
                                ELSE "Invalid credentials.")
    /\ UNCHANGED << ddosVars, scanVars, surveyVars, sqliVars, paceVars,
                    menu_pc, blockVars >>


MenuCheckBalance ==
    /\ \E choice \in Choices :
         /\ Chosen(choice, "check_balance")
         /\ LET balance == get_balance(accounts, logged_in_user_id)
            IN /\ Made("get_balance", logged_in_user_id, "", 0,
                       "AccountManager", Returned(balance # None, accounts))
               /\ logged_in_user_id' = IF balance # None
                                       THEN logged_in_user_id ELSE LoggedOut
               /\ Shown(choice, IF balance # None THEN "Your balance is"
                                ELSE "Error: Could not retrieve balance.")
    /\ UNCHANGED << ddosVars, scanVars, surveyVars, sqliVars, paceVars,
                    menu_pc, blockVars >>


MenuSendMoney(receiver_id, text) ==
    /\ \E choice \in Choices :
         /\ Chosen(choice, "send_money")
         /\ LET amount == float(text)
            IN IF amount.raised
               THEN /\ NoBankCall
                    /\ Shown(choice, "Invalid amount. Please enter a number.")
               ELSE /\ Made("send_money", logged_in_user_id, receiver_id,
                            amount.value, "AccountManager",
                            send_money(accounts, logged_in_user_id,
                                       receiver_id, amount.value,
                                       "AccountManager"))
                    /\ Shown(choice, "")
    /\ UNCHANGED << ddosVars, scanVars, surveyVars, sqliVars, paceVars,
                    logged_in_user_id, menu_pc, blockVars >>


MenuWithdraw(text) ==
    /\ \E choice \in Choices :
         /\ Chosen(choice, "withdraw")
         /\ LET amount == float(text)
            IN IF amount.raised
               THEN /\ NoBankCall
                    /\ Shown(choice, "Invalid amount. Please enter a number.")
               ELSE /\ Made("handle_withdrawal", logged_in_user_id, "",
                            amount.value, "AccountManager",
                            handle_withdrawal(accounts, logged_in_user_id,
                                              amount.value))
                    /\ Shown(choice, "")
    /\ UNCHANGED << ddosVars, scanVars, surveyVars, sqliVars, paceVars,
                    logged_in_user_id, menu_pc, blockVars >>


MenuLogout ==
    /\ \E choice \in Choices :
         /\ Chosen(choice, "logout")
         /\ Shown(choice, "Logged out.")
    /\ logged_in_user_id' = LoggedOut
    /\ NoBankCall
    /\ UNCHANGED << ddosVars, scanVars, surveyVars, sqliVars, paceVars,
                    menu_pc, blockVars >>


\* print("Exiting. Thank you!"); break
MenuExit ==
    /\ \E choice \in Choices :
         /\ Chosen(choice, "exit")
         /\ Shown(choice, "Exiting. Thank you!")
    /\ menu_pc' = "exited"
    /\ NoBankCall
    /\ UNCHANGED << ddosVars, scanVars, surveyVars, sqliVars, paceVars,
                    logged_in_user_id, blockVars >>


\* no if or elif matched the choice, or the final else branch was taken
MenuOther ==
    /\ \E choice \in Choices, branch \in { "none", "final_else" } :
         /\ Chosen(choice, branch)
         /\ Shown(choice, IF branch = "final_else"
                          THEN FinalElse(logged_in_user_id, choice)
                          ELSE "")
    /\ NoBankCall
    /\ UNCHANGED << ddosVars, scanVars, surveyVars, sqliVars, paceVars,
                    logged_in_user_id, menu_pc, blockVars >>


NextMenu ==
    \/ \E u \in MenuUsers, p \in MenuPins : MenuCreateAccount(u, p)
    \/ \E u \in MenuUsers, p \in MenuPins : MenuLogin(u, p)
    \/ MenuCheckBalance
    \/ \E r \in MenuUsers, t \in AmountTexts : MenuSendMoney(r, t)
    \/ \E t \in AmountTexts : MenuWithdraw(t)
    \/ MenuLogout
    \/ MenuExit
    \/ MenuOther

SpecMenu == InitMenu /\ [][NextMenu]_vars

\* ---------------------------------------------------------------- claims
\* C37: in the menu loop, get_balance, send_money and handle_withdrawal are
\* called only for a choice made while a user was logged in, and for that
\* user; create_account and authenticate_user only for a choice made while
\* logged out; logged_in_user_id, when not None, names an existing account
\* and has become so only by an authenticate_user that returned True for it;
\* after choice 7 nobody is logged in; and the loop has ended only after
\* choice 5.
C37_MenuRespectsLogin ==
    menu_pc # "idle" =>
        /\ last_call.op \in { "get_balance", "send_money", "handle_withdrawal" }
              => /\ last_menu.user # LoggedOut
                 /\ last_call.user = last_menu.user
                 /\ last_menu.choice \in { "3", "4", "6" }
        /\ last_call.op \in { "create_account", "authenticate_user" }
              => /\ last_menu.user = LoggedOut
                 /\ last_menu.choice \in { "1", "2" }
        /\ logged_in_user_id # LoggedOut
              => logged_in_user_id \in DOMAIN accounts
        /\ (logged_in_user_id # LoggedOut
              /\ logged_in_user_id # last_menu.user)
              => /\ last_call.op = "authenticate_user"
                 /\ last_call.ret
                 /\ last_call.user = logged_in_user_id
        /\ (last_menu.choice = "7" /\ last_menu.user # LoggedOut)
              => logged_in_user_id = LoggedOut
        /\ menu_pc = "exited" => last_menu.choice = "5"

\* a logged-in user has sent money to another account
C37_Witness ==
    /\ menu_pc = "menu"
    /\ last_call.op = "send_money"
    /\ logged_in_user_id = last_call.user
    /\ last_call.other \in DOMAIN accounts
    /\ last_call.other # last_call.user

\* the choices the menu shows in the state of the user
ValidChoices(user) ==
    IF user = LoggedOut THEN { "1", "2", "5" }
    ELSE { "3", "4", "6", "7", "5" }

\* C38: a choice that is not valid in the current state is answered with a
\* message: Invalid option for a choice outside 1-7, the login-required
\* message for 3, 4, 6 or 7 while logged out, the already-logged-in message
\* for 1 or 2 while logged in.
C38_InvalidChoiceIsAnswered ==
    (menu_pc # "idle" /\ last_menu # NoChoice
        /\ last_menu.choice \notin ValidChoices(last_menu.user))
        => /\ last_menu.message # ""
           /\ last_menu.message = FinalElse(last_menu.user, last_menu.choice)

====
